---- MODULE Spec2Model ----
(***************************************************************************)
(* A model of the variant-aware MCP proxy (package variants of             *)
(* modelcontextprotocol/experimental-ext-variants, Go SDK).                *)
(*                                                                         *)
(* Go strings are byte strings: every string that passes through the       *)
(* cursor codec is a sequence of bytes 0..255, so that encoding/json and    *)
(* encoding/base64 are modelled by what they do to those bytes.             *)
(***************************************************************************)
EXTENDS Integers, Sequences, FiniteSets, TLC

VARIABLES
    variants,    \* Server.variants: the registry, in registration order
    rankingFunc, \* Server.rankingFunc: "nil" or the name of a custom ranker
    regCall,     \* the last call of a registry API and how it ended
    capsIn,      \* what each backend's capabilities() returns, in registry order
    capsOut,     \* the result of discoverCapabilities
    codec,       \* scratch state of one wrapCursor / unwrapCursor experiment
    front,       \* each front *mcp.ServerSession: "open" or "closed"
    sessions,    \* the sync.Map of sessionMiddleware: front session -> state
    states,      \* every sessionState created, with its close watcher
    initResult,  \* the enriched initialize result each front client last got
    last,        \* what the handler that ran last was given and returned
    assembled,   \* per front server built by mcpServer: the shared state its
                 \* middleware captured (NoState in stateful mode)
    shared,      \* Server.shared
    pending      \* per front session: a request whose handler has looked up its
                 \* state and has not yet dispatched

vars == <<variants, rankingFunc, regCall, capsIn, capsOut, codec,
          front, sessions, states, initResult, last, assembled, shared, pending>>

proxyVars == <<front, sessions, states, initResult, last, pending>>

assemblyVars == <<assembled, shared>>

serverVars == <<variants, rankingFunc, regCall, capsIn, capsOut, codec,
                assembled, shared>>

(***************************************************************************)
(* Bytes and small helpers                                                 *)
(***************************************************************************)
Byte == 0..255

RECURSIVE Concat(_)
\* Concatenation of a sequence of byte strings.
Concat(ss) == IF ss = <<>> THEN <<>> ELSE Head(ss) \o Concat(Tail(ss))

Drop(s, n) == SubSeq(s, n + 1, Len(s))
Take(s, n) == SubSeq(s, 1, n)

\* hex[n] of encoding/json: the lowercase digits "0123456789abcdef".
HexDigit(n) == IF n < 10 THEN 48 + n ELSE 97 + (n - 10)

\* The value of one hexadecimal digit byte, or -1.
HexVal(b) ==
    IF b >= 48 /\ b <= 57 THEN b - 48
    ELSE IF b >= 97 /\ b <= 102 THEN b - 87
    ELSE IF b >= 65 /\ b <= 70 THEN b - 55
    ELSE -1

IsCont(b) == b >= 128 /\ b <= 191

\* utf8.DecodeRuneInString: the number of bytes of the well-formed UTF-8
\* encoding that starts s, or 0 when s starts with an invalid byte
\* (RuneError of size 1).
RuneSize(s) ==
    LET b0 == s[1]
        n  == Len(s)
    IN  IF b0 < 128 THEN 1
        ELSE IF b0 >= 194 /\ b0 <= 223
            THEN IF n >= 2 /\ IsCont(s[2]) THEN 2 ELSE 0
        ELSE IF b0 >= 224 /\ b0 <= 239
            THEN IF n >= 3 /\ IsCont(s[3])
                    /\ (IF b0 = 224 THEN s[2] >= 160 /\ s[2] <= 191
                        ELSE IF b0 = 237 THEN s[2] >= 128 /\ s[2] <= 159
                        ELSE IsCont(s[2]))
                 THEN 3 ELSE 0
        ELSE IF b0 >= 240 /\ b0 <= 244
            THEN IF n >= 4 /\ IsCont(s[3]) /\ IsCont(s[4])
                    /\ (IF b0 = 240 THEN s[2] >= 144 /\ s[2] <= 191
                        ELSE IF b0 = 244 THEN s[2] >= 128 /\ s[2] <= 143
                        ELSE IsCont(s[2]))
                 THEN 4 ELSE 0
        ELSE 0

RECURSIVE ValidUTF8(_)
\* utf8.ValidString
ValidUTF8(s) ==
    IF s = <<>> THEN TRUE
    ELSE LET k == RuneSize(s) IN k > 0 /\ ValidUTF8(Drop(s, k))

\* U+FFFD, the replacement character, in UTF-8.
ReplacementChar == <<239, 191, 189>>

\* utf8.AppendRune for a code point below 65536.
EncodeRune(r) ==
    IF r < 128 THEN <<r>>
    ELSE IF r < 2048 THEN <<192 + (r \div 64), 128 + (r % 64)>>
    ELSE IF r >= 55296 /\ r <= 57343 THEN ReplacementChar
    ELSE <<224 + (r \div 4096), 128 + ((r \div 64) % 64), 128 + (r % 64)>>

(***************************************************************************)
(* encoding/json, as far as variantCursor needs it                         *)
(***************************************************************************)
RECURSIVE JsonQuoteBody(_)
\* The body of appendString (escapeHTML on, as json.Marshal sets it): the
\* bytes between the quotes of the JSON string literal for s.
JsonQuoteBody(s) ==
    IF s = <<>> THEN <<>>
    ELSE LET b == s[1] IN
        IF b < 128 THEN
            (IF b = 34 \/ b = 92 THEN <<92, b>>
             ELSE IF b = 8 THEN <<92, 98>>
             ELSE IF b = 12 THEN <<92, 102>>
             ELSE IF b = 10 THEN <<92, 110>>
             ELSE IF b = 13 THEN <<92, 114>>
             ELSE IF b = 9 THEN <<92, 116>>
             ELSE IF b < 32 \/ b = 60 \/ b = 62 \/ b = 38
                 THEN <<92, 117, 48, 48, HexDigit(b \div 16), HexDigit(b % 16)>>
             ELSE <<b>>) \o JsonQuoteBody(Tail(s))
        ELSE LET k == RuneSize(s) IN
            IF k = 0
                \* an invalid byte is written as the six characters \ufffd
                THEN <<92, 117, 102, 102, 102, 100>> \o JsonQuoteBody(Tail(s))
            ELSE IF k = 3 /\ s[1] = 226 /\ s[2] = 128 /\ s[3] \in {168, 169}
                \* U+2028 and U+2029 are written \\u2028 and \\u2029
                THEN <<92, 117, 50, 48, 50, HexDigit(s[3] - 160)>>
                        \o JsonQuoteBody(Drop(s, 3))
            ELSE Take(s, k) \o JsonQuoteBody(Drop(s, k))

JsonQuote(s) == <<34>> \o JsonQuoteBody(s) \o <<34>>

\* json.Marshal(variantCursor{VariantID: v, InnerCursor: c}):
\* {"v":<v>,"c":<c>}
MarshalCursor(v, c) ==
    <<123, 34, 118, 34, 58>> \o JsonQuote(v)
        \o <<44, 34, 99, 34, 58>> \o JsonQuote(c) \o <<125>>

IsSpace(b) == b \in {32, 9, 10, 13}

RECURSIVE SkipSpace(_)
SkipSpace(s) == IF s # <<>> /\ IsSpace(s[1]) THEN SkipSpace(Tail(s)) ELSE s

RECURSIVE UnquoteBody(_)
\* The rest of a JSON string literal after its opening quote:
\* [ok, val (the decoded bytes), rest (what follows the closing quote)].
\* Invalid UTF-8 inside the literal is coerced to U+FFFD, as unquoteBytes does.
UnquoteBody(s) ==
    IF s = <<>> THEN [ok |-> FALSE, val |-> <<>>, rest |-> <<>>]
    ELSE LET b == s[1] IN
        IF b = 34 THEN [ok |-> TRUE, val |-> <<>>, rest |-> Tail(s)]
        ELSE IF b < 32 THEN [ok |-> FALSE, val |-> <<>>, rest |-> <<>>]
        ELSE IF b = 92 THEN
            IF Len(s) < 2 THEN [ok |-> FALSE, val |-> <<>>, rest |-> <<>>]
            ELSE LET e == s[2] IN
                IF e = 117 THEN
                    IF Len(s) >= 6 /\ \A i \in 3..6 : HexVal(s[i]) >= 0
                    THEN LET r == 4096 * HexVal(s[3]) + 256 * HexVal(s[4])
                                    + 16 * HexVal(s[5]) + HexVal(s[6])
                             t == UnquoteBody(Drop(s, 6))
                         IN  [t EXCEPT !.val = EncodeRune(r) \o @]
                    ELSE [ok |-> FALSE, val |-> <<>>, rest |-> <<>>]
                ELSE IF e \in {34, 92, 47, 98, 102, 110, 114, 116}
                    THEN LET d == CASE e = 98 -> 8 [] e = 102 -> 12
                                    [] e = 110 -> 10 [] e = 114 -> 13
                                    [] e = 116 -> 9 [] OTHER -> e
                             t == UnquoteBody(Drop(s, 2))
                         IN  [t EXCEPT !.val = <<d>> \o @]
                ELSE [ok |-> FALSE, val |-> <<>>, rest |-> <<>>]
        ELSE LET k == IF b < 128 THEN 1 ELSE RuneSize(s) IN
            IF k = 0
                THEN LET t == UnquoteBody(Tail(s))
                     IN  [t EXCEPT !.val = ReplacementChar \o @]
                ELSE LET t == UnquoteBody(Drop(s, k))
                     IN  [t EXCEPT !.val = Take(s, k) \o @]

\* A JSON literal (null, true, false) at the head of s: what is
\* left after it, or NoParse (no byte string) when there is none.
NoParse == <<256>>
SkipLiteral(s) ==
    IF Len(s) >= 4 /\ Take(s, 4) = <<110, 117, 108, 108>> THEN Drop(s, 4)
    ELSE IF Len(s) >= 4 /\ Take(s, 4) = <<116, 114, 117, 101>> THEN Drop(s, 4)
    ELSE IF Len(s) >= 5 /\ Take(s, 5) = <<102, 97, 108, 115, 101>> THEN Drop(s, 5)
    ELSE NoParse

IsNull(s) == Len(s) >= 4 /\ Take(s, 4) = <<110, 117, 108, 108>>

\* The struct field a JSON key selects: encoding/json matches the key to the
\* field tag exactly or, failing that, case-insensitively.
FieldOf(key) ==
    IF key = <<118>> \/ key = <<86>> THEN "v"
    ELSE IF key = <<99>> \/ key = <<67>> THEN "c"
    ELSE "none"

\* A failed decode: the struct as far as it was filled.
UnmarshalFail(w) == [ok |-> FALSE, w |-> w]

\* The decode of the rest of an object, failing if this member had a value of
\* the wrong type.
UnmarshalAnd(r, typeErr) == [r EXCEPT !.ok = @ /\ ~typeErr]

RECURSIVE UnmarshalMembers(_, _)
\* After the value of a member: c is what follows it, w2 the struct with the
\* member stored.
UnmarshalAfterValue(c, typeErr, w2, w) ==
    IF c = <<>> THEN UnmarshalFail(w)
    ELSE IF c[1] = 125
        THEN [ok |-> SkipSpace(Tail(c)) = <<>> /\ ~typeErr, w |-> w2]
    ELSE IF c[1] = 44 THEN UnmarshalAnd(UnmarshalMembers(Tail(c), w2), typeErr)
    ELSE UnmarshalFail(w)

\* The value sv of the member for field f: a string sets the field; null
\* leaves the field alone; a literal of another type for a field of the
\* struct is an UnmarshalTypeError.
UnmarshalStore(sv, isStr, typeErr, f, w) ==
    IF ~sv.ok THEN UnmarshalFail(w)
    ELSE UnmarshalAfterValue(SkipSpace(sv.rest), typeErr,
            IF isStr /\ f = "v" THEN [w EXCEPT !.v = sv.val]
            ELSE IF isStr /\ f = "c" THEN [w EXCEPT !.c = sv.val]
            ELSE w,
            w)

\* b is what follows the colon of the member for field f.
UnmarshalValue(b, f, w) ==
    IF b # <<>> /\ b[1] = 34
    THEN UnmarshalStore(UnquoteBody(Tail(b)), TRUE, FALSE, f, w)
    ELSE UnmarshalStore([ok |-> SkipLiteral(b) # NoParse, val |-> <<>>,
                         rest |-> SkipLiteral(b)],
                        FALSE, ~IsNull(b) /\ f # "none", f, w)

\* k is the decoded key of a member, a what follows it.
UnmarshalColon(k, a, w) ==
    IF ~k.ok \/ a = <<>> \/ a[1] # 58 THEN UnmarshalFail(w)
    ELSE UnmarshalValue(SkipSpace(Tail(a)), FieldOf(k.val), w)

\* k is the decoded key of a member.
UnmarshalKey(k, w) == UnmarshalColon(k, SkipSpace(k.rest), w)

\* s starts a member of a JSON object.
UnmarshalMember(s, w) ==
    IF s = <<>> \/ s[1] # 34 THEN UnmarshalFail(w)
    ELSE UnmarshalKey(UnquoteBody(Tail(s)), w)

\* The members of a JSON object after its opening brace, decoded into the
\* struct w: [ok, w].
UnmarshalMembers(s0, w) == UnmarshalMember(SkipSpace(s0), w)

\* s is the JSON text without leading white space.
UnmarshalText(s, zero) ==
    IF s = <<>> THEN [ok |-> FALSE, w |-> zero]
    ELSE IF IsNull(s)
        THEN [ok |-> SkipSpace(Drop(s, 4)) = <<>>, w |-> zero]
    ELSE IF s[1] # 123 THEN [ok |-> FALSE, w |-> zero]
    ELSE IF SkipSpace(Tail(s)) # <<>> /\ SkipSpace(Tail(s))[1] = 125
        THEN [ok |-> SkipSpace(Tail(SkipSpace(Tail(s)))) = <<>>, w |-> zero]
    ELSE UnmarshalMembers(Tail(s), zero)

\* json.Unmarshal(data, &wrapped) for var wrapped variantCursor:
\* [ok, w |-> [v, c]]. JSON null decodes without error and leaves the zero
\* struct; any other non-object value is an error. Values of members are
\* strings or literals (nested values of unknown members are outside the
\* inputs this model draws).
UnmarshalCursor(data) ==
    UnmarshalText(SkipSpace(data), [v |-> <<>>, c |-> <<>>])

\* The string a reader of json.Marshal(s) gets back: s with every byte that is
\* not part of a valid UTF-8 encoding replaced by U+FFFD.
JsonString(s) == UnquoteBody(JsonQuoteBody(s) \o <<34>>).val

(***************************************************************************)
(* encoding/base64, StdEncoding                                            *)
(***************************************************************************)
\* encodeStd: "ABC...XYZabc...xyz0123456789+/"
B64Char(i) ==
    IF i < 26 THEN 65 + i
    ELSE IF i < 52 THEN 97 + (i - 26)
    ELSE IF i < 62 THEN 48 + (i - 52)
    ELSE IF i = 62 THEN 43
    ELSE 47

\* decodeMap: the index of an alphabet character, or -1.
B64Index(b) ==
    IF b >= 65 /\ b <= 90 THEN b - 65
    ELSE IF b >= 97 /\ b <= 122 THEN b - 71
    ELSE IF b >= 48 /\ b <= 57 THEN b + 4
    ELSE IF b = 43 THEN 62
    ELSE IF b = 47 THEN 63
    ELSE -1

B64Pad == <<61>>

RECURSIVE B64Encode(_)
\* base64.StdEncoding.EncodeToString
B64Encode(s) ==
    IF s = <<>> THEN <<>>
    ELSE IF Len(s) = 1 THEN
        <<B64Char(s[1] \div 4), B64Char((s[1] % 4) * 16)>> \o B64Pad \o B64Pad
    ELSE IF Len(s) = 2 THEN
        <<B64Char(s[1] \div 4),
          B64Char((s[1] % 4) * 16 + (s[2] \div 16)),
          B64Char((s[2] % 16) * 4)>> \o B64Pad
    ELSE
        <<B64Char(s[1] \div 4),
          B64Char((s[1] % 4) * 16 + (s[2] \div 16)),
          B64Char((s[2] % 16) * 4 + (s[3] \div 64)),
          B64Char(s[3] % 64)>> \o B64Encode(Drop(s, 3))

RECURSIVE StripNewlines(_)
\* DecodeString ignores carriage returns and line feeds.
StripNewlines(s) ==
    IF s = <<>> THEN <<>>
    ELSE IF s[1] \in {10, 13} THEN StripNewlines(Tail(s))
    ELSE <<s[1]>> \o StripNewlines(Tail(s))

\* The bytes of one quantum in front of the decoded rest.
B64Prepend(bytes, r) == [ok |-> r.ok, val |-> bytes \o r.val]

RECURSIVE B64DecodeQuanta(_)
\* The quanta of four characters of a padded base64 text: [ok, val].
B64DecodeQuanta(s) ==
    IF s = <<>> THEN [ok |-> TRUE, val |-> <<>>]
    ELSE IF Len(s) < 4 THEN [ok |-> FALSE, val |-> <<>>]
    ELSE LET q  == Take(s, 4)
             i1 == B64Index(q[1])
             i2 == B64Index(q[2])
             i3 == B64Index(q[3])
             i4 == B64Index(q[4])
             final == Len(s) = 4
         IN
         IF i1 < 0 \/ i2 < 0 THEN [ok |-> FALSE, val |-> <<>>]
         ELSE IF q[3] = 61 THEN
             \* "xx==": one byte, and nothing may follow the padding
             [ok |-> final /\ q[4] = 61, val |-> <<i1 * 4 + (i2 \div 16)>>]
         ELSE IF i3 < 0 THEN [ok |-> FALSE, val |-> <<>>]
         ELSE IF q[4] = 61 THEN
             \* "xxx=": two bytes
             [ok |-> final,
              val |-> <<i1 * 4 + (i2 \div 16), (i2 % 16) * 16 + (i3 \div 4)>>]
         ELSE IF i4 < 0 THEN [ok |-> FALSE, val |-> <<>>]
         ELSE B64Prepend(<<i1 * 4 + (i2 \div 16),
                           (i2 % 16) * 16 + (i3 \div 4),
                           (i3 % 4) * 64 + i4>>,
                         B64DecodeQuanta(Drop(s, 4)))

\* base64.StdEncoding.DecodeString: [ok, val]
B64Decode(s) == B64DecodeQuanta(StripNewlines(s))

(***************************************************************************)
(* JSON-RPC errors                                                         *)
(***************************************************************************)
CodeInvalidParams == -32602
CodeMethodNotFound == -32601

\* The Data of a jsonrpc.Error: absent, or a JSON object given as a function
\* from its keys.
NoData == [kind |-> "none"]
ObjectData(f) == [kind |-> "object", obj |-> f]

\* A nil error.
NoError == [kind |-> "nil"]
\* &jsonrpc.Error{Code, Message, Data}
JsonRpcError(code, message, data) ==
    [kind |-> "jsonrpc", code |-> code, message |-> message, data |-> data]

(***************************************************************************)
(* Cursor scoping: wrapCursor / unwrapCursor                               *)
(***************************************************************************)
wrapCursor_noVariant(cursor, variantID) ==
    IF cursor = <<>> THEN <<>>
    ELSE B64Encode(MarshalCursor(<<>>, cursor))

wrapCursor(cursor, variantID) ==
    IF cursor = <<>> THEN <<>>
    ELSE B64Encode(MarshalCursor(variantID, cursor))

InvalidCursorFormat ==
    JsonRpcError(CodeInvalidParams, "Invalid cursor format", NoData)

\* unwrapCursor, from the check of the decoded struct on.
unwrapDecoded(u, expectedVariant) ==
    IF ~u.ok THEN [cursor |-> <<>>, err |-> InvalidCursorFormat]
    ELSE IF u.w.v # expectedVariant
    THEN [cursor |-> <<>>,
          err |-> JsonRpcError(CodeInvalidParams,
                    "Cursor invalid for requested variant",
                    ObjectData([cursorVariant |-> JsonString(u.w.v),
                                requestedVariant |-> JsonString(expectedVariant)]))]
    ELSE [cursor |-> u.w.c, err |-> NoError]

unwrapData_lenient(data, expectedVariant) ==
    IF ~data.ok THEN [cursor |-> data.val, err |-> NoError]
    ELSE unwrapDecoded(UnmarshalCursor(data.val), expectedVariant)

\* unwrapCursor, from the base64 result on.
unwrapData(data, expectedVariant) ==
    IF ~data.ok THEN [cursor |-> <<>>, err |-> InvalidCursorFormat]
    ELSE unwrapDecoded(UnmarshalCursor(data.val), expectedVariant)

unwrapCursor_noCheck(cursor, expectedVariant) ==
    IF cursor = <<>> THEN [cursor |-> <<>>, err |-> NoError]
    ELSE unwrapData(B64Decode(cursor), UnmarshalCursor(B64Decode(cursor).val).w.v)

\* unwrapCursor: [cursor (the inner cursor), err]
unwrapCursor(cursor, expectedVariant) ==
    IF cursor = <<>> THEN [cursor |-> <<>>, err |-> NoError]
    ELSE unwrapData(B64Decode(cursor), expectedVariant)

(***************************************************************************)
(* Variants and ranking                                                    *)
(***************************************************************************)
\* VariantStatus
Stable == "stable"
Experimental == "experimental"
Deprecated == "deprecated"

\* Variant IDs, as bytes: "coding", "compact", "legacy" and, for requests,
\* "nonexistent".
Coding == <<99, 111, 100, 105, 110, 103>>
Compact == <<99, 111, 109, 112, 97, 99, 116>>
Legacy == <<108, 101, 103, 97, 99, 121>>
Nonexistent == <<110, 111, 110, 101, 120, 105, 115, 116, 101, 110, 116>>

\* ServerVariant{ID, Hints, Status}; Description and DeprecationInfo are
\* carried along untouched by every operation and are left out.
ServerVariant(id, hints, status) ==
    [ID |-> id, Hints |-> hints, Status |-> status, priority |-> 0]

\* m[k] of a Go map[string]string: the zero value for a missing key.
MapGet(m, k) == IF k \in DOMAIN m THEN m[k] ELSE ""

NoHints == [k \in {} |-> ""]

\* VariantHints{}: what extractVariantHints returns for a client that sends
\* no extension payload, and what the dispatcher ranks with.
EmptyVariantHints == [Hints |-> NoHints]

\* HintValue[string](h, key): the value, or "" when the key is missing.
HintValue(h, key) == MapGet(h.Hints, key)

IDsOf(vs) == [i \in 1..Len(vs) |-> vs[i].ID]

\* Server.Variants(): a fresh slice of the registered ServerVariant values in
\* registration order.
Variants(entries) == [i \in 1..Len(entries) |-> entries[i].variant]

addVariant_noCheck(entries, v, b, priority) ==
    [panicked |-> FALSE,
     variants |-> Append(entries, [variant |-> [v EXCEPT !.priority = priority],
                                   backend |-> b])]

\* Server.addVariant: [panicked, variants]. A panic leaves s.variants as it was.
addVariant(entries, v, b, priority) ==
    IF \E i \in 1..Len(entries) : entries[i].variant.ID = v.ID
    THEN [panicked |-> TRUE, variants |-> entries]
    ELSE [panicked |-> FALSE,
          variants |-> Append(entries, [variant |-> [v EXCEPT !.priority = priority],
                                        backend |-> b])]

statusWeight_unsetUnknown(s) ==
    CASE s = Stable -> 0
      [] s = Experimental -> 1
      [] s = Deprecated -> 2
      [] OTHER -> 3

\* statusWeight
statusWeight(s) ==
    CASE s = Stable \/ s = "" -> 0
      [] s = Experimental -> 1
      [] s = Deprecated -> 2
      [] OTHER -> 3

DefaultCmp_priorityOnly(a, b) == a.priority - b.priority

\* The comparison of defaultRankingFunc: negative when a sorts before b.
DefaultCmp(a, b) ==
    IF a.priority # b.priority THEN a.priority - b.priority
    ELSE statusWeight(a.Status) - statusWeight(b.Status)

\* strings.EqualFold; the hint values of this model are all lower case.
EqualFold(a, b) == a = b

\* The comparison of the example ranker that promotes the variants whose
\* modelFamily hint matches the client's.
ModelFamilyCmp(requested, a, b) ==
    LET aMatch == EqualFold(MapGet(a.Hints, "modelFamily"), requested)
        bMatch == EqualFold(MapGet(b.Hints, "modelFamily"), requested)
    IN  IF aMatch # bMatch THEN (IF aMatch THEN -1 ELSE 1)
        ELSE a.priority - b.priority

\* The comparison a ranker sorts with: key.fn names the ranker, key.requested
\* is the hint value the custom ranker read.
RankCmp(key, a, b) ==
    IF key.fn = "nil" THEN DefaultCmp(a, b)
    ELSE ModelFamilyCmp(key.requested, a, b)

RECURSIVE InsertStable(_, _, _)
\* x placed into the sorted sequence after every element it does not sort
\* strictly before.
InsertStable(sorted, x, key) ==
    IF sorted = <<>> THEN <<x>>
    ELSE LET n == Len(sorted) IN
        IF RankCmp(key, x, sorted[n]) < 0
        THEN Append(InsertStable(Take(sorted, n - 1), x, key), sorted[n])
        ELSE Append(sorted, x)

RECURSIVE SortStableFunc(_, _)
\* slices.SortStableFunc
SortStableFunc(vs, key) ==
    IF vs = <<>> THEN <<>>
    ELSE InsertStable(SortStableFunc(Take(vs, Len(vs) - 1), key), vs[Len(vs)], key)

\* defaultRankingFunc
defaultRankingFunc(hints, vs) ==
    SortStableFunc(vs, [fn |-> "nil", requested |-> ""])

\* The custom RankingFunc of the model-optimized example.
modelFamilyRankingFunc(hints, vs) ==
    SortStableFunc(vs, [fn |-> "modelFamily",
                        requested |-> HintValue(hints, "modelFamily")])

\* A custom RankingFunc that returns the stable variants only, in
\* registration order.
stableOnlyRankingFunc(hints, vs) == SelectSeq(vs, LAMBDA v : v.Status = Stable)

\* The RankingFunc values a Server is configured with in this model.
RankingFuncs == {"nil", "modelFamily"}

\* Server.RankedVariants
RankedVariants(entries, fn, hints) ==
    LET all == Variants(entries) IN
    IF Len(all) = 0 THEN all
    ELSE IF fn = "nil" THEN defaultRankingFunc(hints, all)
    ELSE IF fn = "stableOnly" THEN stableOnlyRankingFunc(hints, all)
    ELSE modelFamilyRankingFunc(hints, all)

(***************************************************************************)
(* Capability discovery and union                                          *)
(***************************************************************************)
\* *mcp.ToolCapabilities, *mcp.PromptCapabilities: nil, or {ListChanged}.
\* *mcp.ResourceCapabilities: nil, or {Subscribe, ListChanged}.
\* Completions, Logging: nil, or a marker value. Experimental: a map.
NilListCap == [present |-> FALSE, ListChanged |-> FALSE]
NilResCap == [present |-> FALSE, Subscribe |-> FALSE, ListChanged |-> FALSE]
NilMarker == [present |-> FALSE, val |-> ""]
NoExperimental == [k \in {} |-> ""]

\* &mcp.ServerCapabilities{}
EmptyCaps ==
    [Tools |-> NilListCap, Resources |-> NilResCap, Prompts |-> NilListCap,
     Completions |-> NilMarker, Logging |-> NilMarker,
     Experimental |-> NoExperimental]

\* A backend whose probe session carries no InitializeResult: caps == nil.
NilCaps == [nil |-> TRUE]

IsNilCaps(c) == "nil" \in DOMAIN c

\* One iteration of the loop of unionCapabilities, with subflags never merged.
UnionStep_firstWins(union, caps) ==
    IF IsNilCaps(caps) THEN union
    ELSE [Tools |-> IF union.Tools.present THEN union.Tools ELSE caps.Tools,
          Resources |-> IF union.Resources.present THEN union.Resources
                        ELSE caps.Resources,
          Prompts |-> IF union.Prompts.present THEN union.Prompts ELSE caps.Prompts,
          Completions |-> union.Completions,
          Logging |-> union.Logging,
          Experimental |-> union.Experimental]

\* One iteration of the loop of unionCapabilities, with a later backend's
\* marker and experimental values replacing an earlier one's.
UnionStep_lastWins(union, caps) ==
    IF IsNilCaps(caps) THEN union
    ELSE [UnionStep_firstWins(union, caps) EXCEPT
            !.Tools = IF caps.Tools.present
                      THEN [present |-> TRUE,
                            ListChanged |-> union.Tools.ListChanged
                                                \/ caps.Tools.ListChanged]
                      ELSE union.Tools,
            !.Completions = IF caps.Completions.present THEN caps.Completions
                            ELSE union.Completions,
            !.Logging = IF caps.Logging.present THEN caps.Logging ELSE union.Logging,
            !.Experimental =
                [k \in DOMAIN union.Experimental \cup DOMAIN caps.Experimental |->
                    IF k \in DOMAIN caps.Experimental THEN caps.Experimental[k]
                    ELSE union.Experimental[k]]]

\* One iteration of the loop of unionCapabilities.
UnionStep(union, caps) ==
    IF IsNilCaps(caps) THEN union
    ELSE [Tools |->
            IF caps.Tools.present
            THEN [present |-> TRUE,
                  ListChanged |-> union.Tools.ListChanged \/ caps.Tools.ListChanged]
            ELSE union.Tools,
          Resources |->
            IF caps.Resources.present
            THEN [present |-> TRUE,
                  Subscribe |-> union.Resources.Subscribe \/ caps.Resources.Subscribe,
                  ListChanged |-> union.Resources.ListChanged
                                    \/ caps.Resources.ListChanged]
            ELSE union.Resources,
          Prompts |->
            IF caps.Prompts.present
            THEN [present |-> TRUE,
                  ListChanged |-> union.Prompts.ListChanged \/ caps.Prompts.ListChanged]
            ELSE union.Prompts,
          Completions |->
            IF caps.Completions.present /\ ~union.Completions.present
            THEN caps.Completions ELSE union.Completions,
          Logging |->
            IF caps.Logging.present /\ ~union.Logging.present
            THEN caps.Logging ELSE union.Logging,
          Experimental |->
            [k \in DOMAIN union.Experimental \cup DOMAIN caps.Experimental |->
                IF k \in DOMAIN union.Experimental THEN union.Experimental[k]
                ELSE caps.Experimental[k]]]

RECURSIVE unionCapabilities(_)
\* unionCapabilities(allCaps)
unionCapabilities(allCaps) ==
    IF allCaps = <<>> THEN EmptyCaps
    ELSE UnionStep(unionCapabilities(Take(allCaps, Len(allCaps) - 1)),
                   allCaps[Len(allCaps)])

RECURSIVE NonNilCaps(_)
\* The allCaps slice discoverCapabilities builds: the non-nil results.
NonNilCaps(results) ==
    IF results = <<>> THEN <<>>
    ELSE IF IsNilCaps(Head(results)) THEN NonNilCaps(Tail(results))
    ELSE <<Head(results)>> \o NonNilCaps(Tail(results))

\* Server.discoverCapabilities, given what capabilities() of each backend
\* returns: a caps record, NilCaps, or ProbeError.
ProbeError == [probeError |-> TRUE]
IsProbeError(c) == "probeError" \in DOMAIN c

discoverCapabilities(results) ==
    IF \E i \in 1..Len(results) : IsProbeError(results[i])
    THEN [err |-> TRUE, caps |-> EmptyCaps]
    ELSE [err |-> FALSE, caps |-> unionCapabilities(NonNilCaps(results))]

(***************************************************************************)
(* The values of the variables a specification leaves alone                *)
(***************************************************************************)
NoCall == [op |-> "none"]

RegistryIdle ==
    /\ variants = <<>>
    /\ rankingFunc = "nil"
    /\ regCall = NoCall

NotDiscovered == [done |-> FALSE]

CapsIdle ==
    /\ capsIn = <<>>
    /\ capsOut = NotDiscovered

CodecIdle == codec = [pc |-> "idle"]

\* The front sessions of this model.
Sessions == {"s1", "s2"}

\* sessions.Load(ss) finds nothing.
NoState == 0

\* No initialize has succeeded on the session.
NoInitResult == [done |-> FALSE]

\* No handler has run, or its result has been delivered.
Idle == [kind |-> "idle"]

\* No request is between the lookup of its state and its dispatch.
NoPending == [kind |-> "none"]

ProxyIdle ==
    /\ front = [s \in Sessions |-> "open"]
    /\ sessions = [s \in Sessions |-> NoState]
    /\ states = <<>>
    /\ initResult = [s \in Sessions |-> NoInitResult]
    /\ last = Idle
    /\ pending = [s \in Sessions |-> NoPending]

\* mcpServer has not been called.
NotAssembled ==
    /\ assembled = <<>>
    /\ shared = NoState

(***************************************************************************)
(* Building the registry: WithVariant and WithRanking                      *)
(***************************************************************************)
MaxVariants == 3

RegistryIDs == {Coding, Compact, Legacy}
RegistryPriorities == {0, 1}
RegistryStatuses == {Stable, Experimental}

\* NewServer: no registered variants, no ranking function.
RegistryInit ==
    /\ variants = <<>>
    /\ rankingFunc = "nil"
    /\ regCall = NoCall
    /\ CapsIdle
    /\ CodecIdle
    /\ ProxyIdle
    /\ NotAssembled

\* The inner server a variant is registered with: an *mcp.Server of its own.
InnerServerOf(id) ==
    IF id = Coding THEN "coding-server"
    ELSE IF id = Compact THEN "compact-server"
    ELSE "legacy-server"

\* Server.WithVariant(v, mcpServer, priority). The backend of the entry is the
\* in-memory backend of the inner server.
WithVariant(id, status, priority) ==
    LET r == addVariant(variants, ServerVariant(id, NoHints, status),
                        InnerServerOf(id), priority) IN
    /\ Len(variants) < MaxVariants \/ r.panicked
    /\ variants' = r.variants
    /\ regCall' = [op |-> "WithVariant", id |-> id, panicked |-> r.panicked,
                   before |-> variants]
    /\ UNCHANGED rankingFunc

\* Server.WithRanking(fn)
WithRanking(fn) ==
    /\ rankingFunc' = fn
    /\ regCall' = [op |-> "WithRanking", id |-> <<>>, panicked |-> FALSE,
                   before |-> variants]
    /\ UNCHANGED variants

RegistryNext ==
    /\ \/ \E id \in RegistryIDs, st \in RegistryStatuses, p \in RegistryPriorities :
            WithVariant(id, st, p)
       \/ \E fn \in RankingFuncs : WithRanking(fn)
    /\ UNCHANGED <<capsIn, capsOut, codec>>
    /\ UNCHANGED proxyVars
    /\ UNCHANGED assemblyVars

RegistrySpec == RegistryInit /\ [][RegistryNext]_vars

\* C10: the registry never holds two entries with the same ID; a WithVariant
\* call panics exactly when its ID is already registered, and then leaves the
\* entries and their order as they were; otherwise it appends one entry.
C10_UniqueIDs ==
    /\ \A i, j \in 1..Len(variants) :
            variants[i].variant.ID = variants[j].variant.ID => i = j
    /\ regCall.op = "WithVariant" =>
        LET dup == \E i \in 1..Len(regCall.before) :
                        regCall.before[i].variant.ID = regCall.id
        IN  /\ regCall.panicked = dup
            /\ regCall.panicked => variants = regCall.before
            /\ ~regCall.panicked =>
                    /\ Len(variants) = Len(regCall.before) + 1
                    /\ Take(variants, Len(regCall.before)) = regCall.before
                    /\ variants[Len(variants)].variant.ID = regCall.id

\* A duplicate registration that panicked with two variants registered.
C10_Witness ==
    /\ regCall.op = "WithVariant"
    /\ regCall.panicked
    /\ Len(variants) = 2

(***************************************************************************)
(* Capability discovery on its own: any list of backend capability sets    *)
(***************************************************************************)
MaxBackends == 2

ListCaps == {NilListCap} \cup { [present |-> TRUE, ListChanged |-> lc] : lc \in BOOLEAN }
ResCaps ==
    {NilResCap} \cup { [present |-> TRUE, Subscribe |-> sb, ListChanged |-> lc] :
                            sb \in BOOLEAN, lc \in BOOLEAN }

\* What a backend's capabilities() may return.
BackendCaps ==
    { [Tools |-> t, Resources |-> r, Prompts |-> p,
       Completions |-> NilMarker, Logging |-> NilMarker,
       Experimental |-> NoExperimental] :
            t \in ListCaps, r \in ResCaps, p \in ListCaps }
        \cup {NilCaps, ProbeError}

RECURSIVE SeqsUpTo(_, _)
SeqsUpTo(S, n) ==
    IF n = 0 THEN { <<>> }
    ELSE LET shorter == SeqsUpTo(S, n - 1)
         IN  shorter \cup { Append(q, x) : q \in { t \in shorter : Len(t) = n - 1 }, x \in S }

CapsInit ==
    /\ capsIn \in SeqsUpTo(BackendCaps, MaxBackends)
    /\ capsOut = NotDiscovered
    /\ RegistryIdle
    /\ CodecIdle
    /\ ProxyIdle
    /\ NotAssembled

\* The call of discoverCapabilities in Server.mcpServer.
Discover ==
    /\ ~capsOut.done
    /\ LET r == discoverCapabilities(capsIn)
       IN  capsOut' = [done |-> TRUE, err |-> r.err, caps |-> r.caps]
    /\ UNCHANGED <<capsIn, variants, rankingFunc, regCall, codec>>
    /\ UNCHANGED proxyVars
    /\ UNCHANGED assemblyVars

CapsNext == Discover

CapsSpec == CapsInit /\ [][CapsNext]_vars

\* The backends that answered with a capability set.
Advertising == { i \in 1..Len(capsIn) : ~IsNilCaps(capsIn[i]) }

\* C9: the front server advertises tools (resources, prompts) iff at least
\* one backend does, and each boolean subflag of the union is true iff it is
\* true in at least one backend.
C9_UnionSoundness ==
    (capsOut.done /\ ~capsOut.err) =>
        LET u == capsOut.caps IN
        /\ u.Tools.present <=> \E i \in Advertising : capsIn[i].Tools.present
        /\ u.Resources.present <=> \E i \in Advertising : capsIn[i].Resources.present
        /\ u.Prompts.present <=> \E i \in Advertising : capsIn[i].Prompts.present
        /\ u.Tools.ListChanged <=>
                \E i \in Advertising : capsIn[i].Tools.present /\ capsIn[i].Tools.ListChanged
        /\ u.Resources.Subscribe <=>
                \E i \in Advertising :
                    capsIn[i].Resources.present /\ capsIn[i].Resources.Subscribe
        /\ u.Resources.ListChanged <=>
                \E i \in Advertising :
                    capsIn[i].Resources.present /\ capsIn[i].Resources.ListChanged
        /\ u.Prompts.ListChanged <=>
                \E i \in Advertising :
                    capsIn[i].Prompts.present /\ capsIn[i].Prompts.ListChanged

\* Two backends, the second of which alone advertises resources.subscribe
\* and tools.listChanged, the first of which alone advertises prompts.
C9_Witness ==
    /\ capsOut.done
    /\ ~capsOut.err
    /\ Len(capsIn) = 2
    /\ ~IsNilCaps(capsIn[1]) /\ ~IsNilCaps(capsIn[2])
    /\ capsIn[1].Tools.present /\ ~capsIn[1].Tools.ListChanged
    /\ capsIn[2].Tools.ListChanged
    /\ ~capsIn[1].Resources.present /\ capsIn[2].Resources.Subscribe
    /\ capsIn[1].Prompts.present /\ ~capsIn[2].Prompts.present
    /\ capsOut.caps.Tools.ListChanged
    /\ capsOut.caps.Resources.Subscribe
    /\ capsOut.caps.Prompts.present

(***************************************************************************)
(* The codec on its own: strings drawn from a small alphabet that holds    *)
(* a plain letter, characters JSON escapes, a byte that is not UTF-8 and   *)
(* the replacement character itself.                                       *)
(***************************************************************************)
MaxCursorLen == 2

CodecChars == { <<97>>, <<34>>, <<60>>, <<255>>, ReplacementChar }

RECURSIVE StringsUpTo(_)
StringsUpTo(n) ==
    IF n = 0 THEN { <<>> }
    ELSE LET shorter == StringsUpTo(n - 1)
         IN  shorter \cup { s \o ch : s \in shorter, ch \in CodecChars }

CodecCursors == StringsUpTo(MaxCursorLen)
CodecVariants == StringsUpTo(1)

CodecInit ==
    /\ RegistryIdle
    /\ CapsIdle
    /\ ProxyIdle
    /\ NotAssembled
    /\ \E c \in CodecCursors, v \in CodecVariants, v2 \in CodecVariants :
        codec = [pc |-> "start", c |-> c, v |-> v, v2 |-> v2,
                 wrapped |-> <<>>,
                 same |-> [cursor |-> <<>>, err |-> NoError],
                 other |-> [cursor |-> <<>>, err |-> NoError]]

\* wrapped := wrapCursor(c, v)
CodecWrap ==
    /\ codec.pc = "start"
    /\ UNCHANGED <<variants, rankingFunc, regCall, capsIn, capsOut>>
    /\ UNCHANGED proxyVars
    /\ UNCHANGED assemblyVars
    /\ codec' = [codec EXCEPT !.pc = "wrapped",
                              !.wrapped = wrapCursor(codec.c, codec.v)]

\* same := unwrapCursor(wrapped, v); other := unwrapCursor(wrapped, v2)
CodecUnwrap ==
    /\ codec.pc = "wrapped"
    /\ UNCHANGED <<variants, rankingFunc, regCall, capsIn, capsOut>>
    /\ UNCHANGED proxyVars
    /\ UNCHANGED assemblyVars
    /\ codec' = [codec EXCEPT !.pc = "unwrapped",
                              !.same = unwrapCursor(codec.wrapped, codec.v),
                              !.other = unwrapCursor(codec.wrapped, codec.v2)]

CodecNext == CodecWrap \/ CodecUnwrap

CodecSpec == CodecInit /\ [][CodecNext]_vars

ListMethods ==
    {"tools/list", "resources/list", "prompts/list", "resources/templates/list"}

CallMethods == {"tools/call", "resources/read", "prompts/get"}

\* The methods dispatcher.handle routes to an inner session.
RoutedMethods ==
    ListMethods \cup CallMethods
        \cup {"resources/subscribe", "resources/unsubscribe", "completion/complete"}

\* What params._meta holds under the key io.modelcontextprotocol/server-variant:
\* nothing, a JSON string, or a JSON value that is not a string.
NoSelector == [kind |-> "absent"]
StringSelector(v) == [kind |-> "string", value |-> v]
NonStringSelector == [kind |-> "number"]

\* A request: params is "nil" (no params) or "present"; meta is the selector;
\* cursor is the Cursor of a list request; name is the tool, prompt or URI.
NewRequest(method, params, meta, cursor, name) ==
    [method |-> method, params |-> params, meta |-> meta, cursor |-> cursor,
     name |-> name]

\* The handlers' type assertion p, _ := params.(*T): p is nil for nil params,
\* for a typed nil and for params of another type ("wrongType").
AssertedNil(req) == req.params \in {"nil", "typedNil", "wrongType"}

\* variantIDFromMeta that reads a numeric selector as its decimal text "42".
variantIDFromMeta_anyType(req) ==
    IF req.params = "nil" THEN <<>>
    ELSE IF req.params = "typedNil" THEN <<>>
    ELSE IF req.meta.kind = "string" THEN req.meta.value
    ELSE IF req.meta.kind = "number" THEN <<52, 50>>
    ELSE <<>>

\* variantIDFromMeta: the empty string unless the selector is a string.
variantIDFromMeta(req) ==
    IF req.params = "nil" THEN <<>>
    ELSE IF req.params = "typedNil" THEN <<>>
    ELSE IF req.meta.kind = "string" THEN req.meta.value
    ELSE <<>>

(***************************************************************************)
(* Errors of the dispatcher                                                *)
(***************************************************************************)
CodeInternalError == -32603

\* An error that is not a *jsonrpc.Error (errors.New, a transport failure).
PlainError(msg) == [kind |-> "error", message |-> msg]

\* data[k] = v of a map[string]any
MapPut(data, k, v) ==
    [x \in (DOMAIN data) \cup {k} |-> IF x = k THEN v ELSE data[x]]

\* An error that wraps another one (fmt.Errorf with %w).
WrappedError(msg, cause) == [kind |-> "wrapped", message |-> msg, cause |-> cause]

\* errors.As(err, &jErr): the *jsonrpc.Error that err is or wraps, or NoError.
AsJsonRpcError(err) ==
    IF err.kind = "jsonrpc" THEN err
    ELSE IF err.kind = "wrapped" THEN (IF err.cause.kind = "jsonrpc" THEN err.cause ELSE NoError)
    ELSE NoError

\* The handler does not return: a run-time panic.
Panic(msg) == [kind |-> "panic", message |-> msg]

\* The Data of a jsonrpc.Error that is the JSON text null, and one that is a
\* JSON value other than null and an object (a string, a number, an array).
NullData == [kind |-> "null"]
ScalarData == [kind |-> "scalar"]

\* The members of an object Data, as JSON values: a string, or a number given
\* by the decimal digits of a non-negative integer below 2^54, written
\* hi * 10^8 + lo with lo < 10^8.
JsonText(s) == [t |-> "string", s |-> s, hi |-> 0, lo |-> 0]
JsonNumber(hi, lo) == [t |-> "number", s |-> "", hi |-> hi, lo |-> lo]

\* float64(n) as json.Unmarshal stores a number in a map[string]any, and the
\* digits json.Marshal writes for it. Up to 2^53 = 90071992 * 10^8 + 54740992
\* every integer is a float64; from there to 2^54 the float64 values are the
\* even integers, and an odd n is rounded to the neighbour whose half is even.
Float64(n) ==
    IF n.hi < 90071992 \/ (n.hi = 90071992 /\ n.lo <= 54740992) THEN n
    ELSE IF n.lo % 2 = 0 THEN n
    ELSE IF n.lo % 4 = 1 THEN [n EXCEPT !.lo = n.lo - 1]
    ELSE IF n.lo + 1 = 100000000 THEN [n EXCEPT !.hi = n.hi + 1, !.lo = 0]
    ELSE [n EXCEPT !.lo = n.lo + 1]

\* One member of the data after json.Unmarshal(jErr.Data, &data) and
\* json.Marshal(data).
Remarshal(v) == IF v.t = "number" THEN Float64(v) ELSE v

\* enrichError gives the error a new Data: the code is -32602 or -32601.
Enrichable(jErr) ==
    /\ jErr # NoError
    /\ jErr.code \in {CodeInvalidParams, CodeMethodNotFound}

\* enrichError, from the parse of jErr.Data on. json.Unmarshal sets the map to
\* nil for the JSON text null, so that the assignment of activeVariant
\* panics; a value that is not an object leaves the map empty.
enrichData(jErr, variantID) ==
    IF jErr.data.kind = "null" THEN Panic("assignment to entry in nil map")
    ELSE JsonRpcError(jErr.code, jErr.message,
            ObjectData(MapPut(IF jErr.data.kind = "object"
                              THEN [k \in DOMAIN jErr.data.obj |->
                                        Remarshal(jErr.data.obj[k])]
                              ELSE <<>>,
                              "activeVariant", JsonString(variantID))))

\* enrichError
enrichError(err, variantID) ==
    IF ~Enrichable(AsJsonRpcError(err)) THEN err
    ELSE enrichData(AsJsonRpcError(err), variantID)

\* The error of createInvalidVariantError for the ranked list it computed.
InvalidVariantError(requestedVariant, ranked) ==
    JsonRpcError(CodeInvalidParams, "Invalid server variant",
        ObjectData([requestedVariant |-> JsonString(requestedVariant),
                    availableVariants |->
                        [i \in 1..Len(ranked) |-> JsonString(ranked[i].ID)]]))

\* dispatcher.createInvalidVariantError
createInvalidVariantError(requestedVariant) ==
    InvalidVariantError(requestedVariant,
                        RankedVariants(variants, rankingFunc, EmptyVariantHints))

\* getSession, the lookup in d.connections.
lookupConnection(connections, variantID) ==
    IF variantID \notin DOMAIN connections
    THEN [variantID |-> <<>>, err |-> createInvalidVariantError(variantID)]
    ELSE [variantID |-> variantID, err |-> NoError]

\* getSession, for the ID read from _meta and the ranking with empty hints.
resolveVariant(connections, id, ranked) ==
    IF id = <<>> /\ Len(ranked) = 0
    THEN [variantID |-> <<>>, err |-> PlainError("no variants available")]
    ELSE lookupConnection(connections, IF id = <<>> THEN ranked[1].ID ELSE id)

getSession_ignoreSelector(connections, req) ==
    resolveVariant(connections, <<>>,
                   RankedVariants(variants, rankingFunc, EmptyVariantHints))

getSession_fallbackToDefault(connections, req) ==
    resolveVariant(connections,
                   IF variantIDFromMeta(req) \in DOMAIN connections
                   THEN variantIDFromMeta(req) ELSE <<>>,
                   RankedVariants(variants, rankingFunc, EmptyVariantHints))

getSession_defaultLast(connections, req) ==
    resolveVariant(connections, variantIDFromMeta(req),
        LET ranked == RankedVariants(variants, rankingFunc, EmptyVariantHints)
        IN  [i \in 1..Len(ranked) |-> ranked[Len(ranked) + 1 - i]])

\* dispatcher.getSession: [variantID, err]; the client session is
\* connections[variantID].
getSession(connections, req) ==
    resolveVariant(connections, variantIDFromMeta(req),
                   RankedVariants(variants, rankingFunc, EmptyVariantHints))

(***************************************************************************)
(* The inner servers and the inner client sessions                         *)
(***************************************************************************)
\* The tools of the inner server behind a backend (newTestServers).
InnerTools(backend) ==
    IF backend = "coding-server" THEN <<"analyze_code", "refactor">>
    ELSE <<"summarize", "lookup">>

NoResult == [kind |-> "nil"]

\* What an inner server lists under a list method. The servers of
\* newTestServers register tools only; "catalog-server" is an *mcp.Server
\* that also has two resources, two prompts and two resource templates.
InnerItems(backend, method) ==
    IF method = "tools/list" THEN InnerTools(backend)
    ELSE IF backend = "catalog-server" THEN <<method \o "#1", method \o "#2">>
    ELSE <<>>

\* The page an inner server returns for a list method: one item per page, the
\* cursor being the decimal offset of the next item.
InnerList(backend, method, cursor) ==
    LET items == InnerItems(backend, method)
        offset == IF cursor = <<>> THEN 0
                  ELSE IF Len(cursor) = 1 /\ cursor[1] - 48 \in 1..(Len(items) - 1)
                       THEN cursor[1] - 48
                  ELSE -1
    IN  IF offset < 0
        THEN [err |-> JsonRpcError(CodeInvalidParams, "invalid cursor", NoData),
              result |-> NoResult]
        ELSE [err |-> NoError,
              result |-> [kind |-> "list",
                          items |-> IF offset < Len(items)
                                    THEN <<items[offset + 1]>> ELSE <<>>,
                          nextCursor |-> IF offset + 1 < Len(items)
                                         THEN <<48 + offset + 1>> ELSE <<>>]]

\* What the inner server answers to one RPC.
InnerAnswer(backend, rpc) ==
    IF rpc.method \in ListMethods THEN InnerList(backend, rpc.method, rpc.cursor)
    ELSE IF rpc.method = "tools/call"
    THEN IF \E i \in 1..Len(InnerTools(backend)) : InnerTools(backend)[i] = rpc.name
         THEN [err |-> NoError,
               result |-> [kind |-> "call", server |-> backend, content |-> rpc.name]]
         ELSE [err |-> JsonRpcError(CodeInvalidParams, "unknown tool", NoData),
               result |-> NoResult]
    ELSE [err |-> NoError,
          result |-> [kind |-> "call", server |-> backend, content |-> rpc.name]]

\* The ways an RPC on an inner session fails for reasons of the inner server
\* or the transport.
InnerFaults == {"none", "invalidParams", "methodNotFound", "internal", "transport"}

FaultError(fault) ==
    CASE fault = "invalidParams" ->
            JsonRpcError(CodeInvalidParams, "invalid params",
                         ObjectData([detail |-> JsonText("inner")]))
      [] fault = "methodNotFound" ->
            JsonRpcError(CodeMethodNotFound, "method not found", NoData)
      [] fault = "internal" ->
            JsonRpcError(CodeInternalError, "internal error",
                         ObjectData([detail |-> JsonText("inner")]))
      [] OTHER -> PlainError("connection closed")

\* One call on the client session of a connection (session.ListTools,
\* session.CallTool, ...): [err, result].
ClientSessionCall(conn, rpc, fault) ==
    IF conn.client # "open" THEN [err |-> FaultError("transport"), result |-> NoResult]
    ELSE IF fault # "none" THEN [err |-> FaultError(fault), result |-> NoResult]
    ELSE InnerAnswer(conn.backend, rpc)

(***************************************************************************)
(* The dispatcher                                                          *)
(***************************************************************************)
NoRPC == [kind |-> "none"]

\* What a handler did: passed (handed to next), variantID (the variant
\* getSession resolved, "" if none), rpc (the call made on the inner session of
\* that variant), innerErr (the error of that call), err and result (what the
\* handler returns).
Outcome(passed, variantID, rpc, innerErr, err, result) ==
    [passed |-> passed, variantID |-> variantID, rpc |-> rpc,
     innerErr |-> innerErr, err |-> err, result |-> result]

ClientCall_subscribeBoth(method) ==
    CASE method = "tools/list" -> "ListTools"
      [] method = "resources/list" -> "ListResources"
      [] method = "prompts/list" -> "ListPrompts"
      [] method = "resources/templates/list" -> "ListResourceTemplates"
      [] method = "tools/call" -> "CallTool"
      [] method = "resources/read" -> "ReadResource"
      [] method = "prompts/get" -> "GetPrompt"
      [] method = "resources/subscribe" -> "Subscribe"
      [] method = "resources/unsubscribe" -> "Subscribe"
      [] OTHER -> "Complete"

\* The method of *mcp.ClientSession that the handler of a routed method calls
\* (the cases of the switches of handleList and handleCall, and the three
\* handlers of their own).
ClientCall(method) ==
    CASE method = "tools/list" -> "ListTools"
      [] method = "resources/list" -> "ListResources"
      [] method = "prompts/list" -> "ListPrompts"
      [] method = "resources/templates/list" -> "ListResourceTemplates"
      [] method = "tools/call" -> "CallTool"
      [] method = "resources/read" -> "ReadResource"
      [] method = "prompts/get" -> "GetPrompt"
      [] method = "resources/subscribe" -> "Subscribe"
      [] method = "resources/unsubscribe" -> "Unsubscribe"
      [] OTHER -> "Complete"

\* One call on the client session of the connection conn: the method called,
\* the inner server at the other end, and the cursor and name it is given.
InnerRPC(conn, req, cursor) ==
    [kind |-> "rpc", method |-> req.method, call |-> ClientCall(req.method),
     server |-> conn.backend, cursor |-> cursor, name |-> req.name]

\* What a handler returns for the answer r of the inner session: the error
\* enriched, or the result (wrapped is that result as the handler returns it).
AnswerOutcome(variantID, rpc, r, wrapped) ==
    IF r.err # NoError
    THEN Outcome(FALSE, variantID, rpc, r.err, enrichError(r.err, variantID), NoResult)
    ELSE Outcome(FALSE, variantID, rpc, NoError, NoError, wrapped)

\* A handler's return before any call is made.
Rejected(variantID, err) == Outcome(FALSE, variantID, NoRPC, NoError, err, NoResult)

WrapNextCursor_asIs(r, variantID) ==
    IF r.err # NoError THEN NoResult ELSE r.result

\* result.NextCursor = wrapCursor(result.NextCursor, variantID)
WrapNextCursor(r, variantID) ==
    IF r.err # NoError THEN NoResult
    ELSE [r.result EXCEPT !.nextCursor = wrapCursor(r.result.nextCursor, variantID)]

\* handleList, the call on the inner session and what follows it.
handleListCall(conn, variantID, rpc, r) ==
    AnswerOutcome(variantID, rpc, r, WrapNextCursor(r, variantID))

\* handleList that forwards a cursor it could not unwrap as it received it.
handleListUnwrapped_forwardRaw(conn, variantID, req, fault, u) ==
    IF u.err # NoError
    THEN handleListCall(conn, variantID, InnerRPC(conn, req, req.cursor),
                        ClientSessionCall(conn, InnerRPC(conn, req, req.cursor), fault))
    ELSE handleListCall(conn, variantID, InnerRPC(conn, req, u.cursor),
                        ClientSessionCall(conn, InnerRPC(conn, req, u.cursor), fault))

\* handleList, from the unwrapped cursor u on.
handleListUnwrapped(conn, variantID, req, fault, u) ==
    IF u.err # NoError THEN Rejected(variantID, u.err)
    ELSE handleListCall(conn, variantID, InnerRPC(conn, req, u.cursor),
                        ClientSessionCall(conn, InnerRPC(conn, req, u.cursor), fault))

\* handleList, from the resolved variant g on.
handleListResolved(connections, req, fault, g) ==
    IF g.err # NoError THEN Rejected(g.variantID, g.err)
    ELSE handleListUnwrapped(connections[g.variantID], g.variantID, req, fault,
            IF AssertedNil(req) THEN [cursor |-> <<>>, err |-> NoError]
            ELSE unwrapCursor(req.cursor, g.variantID))

\* dispatcher.handleList
handleList(connections, req, fault) ==
    handleListResolved(connections, req, fault, getSession(connections, req))

\* A call handler, the call on the inner session and what follows it.
ForwardAnswer(conn, variantID, req, r) ==
    AnswerOutcome(variantID, InnerRPC(conn, req, <<>>), r,
        IF req.method \in {"resources/subscribe", "resources/unsubscribe"}
        THEN NoResult ELSE r.result)

\* A call handler, from the resolved variant g on.
ForwardResolved(connections, req, fault, g) ==
    IF g.err # NoError THEN Rejected(g.variantID, g.err)
    ELSE IF AssertedNil(req)
    THEN Rejected(g.variantID,
                  JsonRpcError(CodeInvalidParams,
                               "missing or invalid " \o req.method \o " params",
                               NoData))
    ELSE ForwardAnswer(connections[g.variantID], g.variantID, req,
            ClientSessionCall(connections[g.variantID],
                              InnerRPC(connections[g.variantID], req, <<>>), fault))

\* The body handleCall, handleSubscribe, handleUnsubscribe and
\* handleCompletion share: resolve the variant, reject missing params, make the
\* call, enrich its error.
ForwardCall(connections, req, fault) ==
    ForwardResolved(connections, req, fault, getSession(connections, req))

\* next(ctx, method, req): the front server's own handler.
PassToNext == Outcome(TRUE, <<>>, NoRPC, NoError, NoError, [kind |-> "next"])

\* dispatcher.handleCall (tools/call, resources/read, prompts/get)
handleCall(connections, req, fault) == ForwardCall(connections, req, fault)

\* dispatcher.handleSubscribe
handleSubscribe(connections, req, fault) == ForwardCall(connections, req, fault)

\* dispatcher.handleUnsubscribe
handleUnsubscribe(connections, req, fault) == ForwardCall(connections, req, fault)

\* dispatcher.handleCompletion
handleCompletion(connections, req, fault) == ForwardCall(connections, req, fault)

handle_forwardOthers(connections, req, fault) ==
    IF req.method \in ListMethods THEN handleList(connections, req, fault)
    ELSE ForwardCall(connections, req, fault)

\* dispatcher.handle
handle(connections, req, fault) ==
    IF req.method \in ListMethods THEN handleList(connections, req, fault)
    ELSE IF req.method \in CallMethods THEN handleCall(connections, req, fault)
    ELSE IF req.method = "resources/subscribe"
        THEN handleSubscribe(connections, req, fault)
    ELSE IF req.method = "resources/unsubscribe"
        THEN handleUnsubscribe(connections, req, fault)
    ELSE IF req.method = "completion/complete"
        THEN handleCompletion(connections, req, fault)
    ELSE PassToNext

(***************************************************************************)
(* Session state: connect, createSessionState, close                       *)
(***************************************************************************)
\* How one backend.connect ends: both sides connected, the inner server's
\* Connect failed, or the proxy client's Connect failed.
ConnectOutcomes == {"ok", "serverFail", "clientFail"}

ConnectError(outcome) == PlainError(outcome)

\* inMemoryBackend.connect: [err, conn]. conn tells what became of the inner
\* server session and of the proxy client session ("none": never created).
connect(entry, outcome) ==
    CASE outcome = "ok" ->
            [err |-> NoError,
             conn |-> [backend |-> entry.backend, server |-> "open", client |-> "open"]]
      [] outcome = "serverFail" ->
            [err |-> ConnectError(outcome),
             conn |-> [backend |-> entry.backend, server |-> "none", client |-> "none"]]
      [] OTHER ->
            [err |-> ConnectError(outcome),
             conn |-> [backend |-> entry.backend, server |-> "closed", client |-> "none"]]

innerConnection_close_noCleanup(c) == [c EXCEPT !.client = "closed"]

\* innerConnection.close: the client session, then cleanupFn (the inner
\* server session).
innerConnection_close(c) == [c EXCEPT !.client = "closed", !.server = "closed"]

\* sessionState.close
sessionState_close(connections) ==
    [id \in DOMAIN connections |-> innerConnection_close(connections[id])]

\* The first entry whose connect fails under the plan, or 0.
FirstFailure(entries, plan) ==
    IF \A i \in 1..Len(entries) : plan[i] = "ok" THEN 0
    ELSE CHOOSE k \in 1..Len(entries) :
            /\ plan[k] # "ok"
            /\ \A i \in 1..(k - 1) : plan[i] = "ok"

createSessionState_noCleanup(entries, plan) ==
    LET k == FirstFailure(entries, plan) IN
    IF k = 0
    THEN [err |-> NoError,
          connections |-> [id \in { entries[i].variant.ID : i \in 1..Len(entries) } |->
                LET i == CHOOSE j \in 1..Len(entries) : entries[j].variant.ID = id
                IN  connect(entries[i], "ok").conn],
          made |-> [i \in 1..Len(entries) |-> connect(entries[i], "ok").conn]]
    ELSE [err |-> connect(entries[k], plan[k]).err,
          connections |-> <<>>,
          made |-> [i \in 1..k |->
                IF i < k THEN connect(entries[i], "ok").conn
                ELSE connect(entries[k], plan[k]).conn]]

\* Server.createSessionState: [err, connections, made]. plan[i] is how the
\* connect of the i-th entry ends. connections is the table of the new state;
\* made lists every connection the call created, as the call leaves it.
createSessionState(entries, plan) ==
    LET k == FirstFailure(entries, plan) IN
    IF k = 0
    THEN [err |-> NoError,
          connections |-> [id \in { entries[i].variant.ID : i \in 1..Len(entries) } |->
                LET i == CHOOSE j \in 1..Len(entries) : entries[j].variant.ID = id
                IN  connect(entries[i], "ok").conn],
          made |-> [i \in 1..Len(entries) |-> connect(entries[i], "ok").conn]]
    ELSE [err |-> connect(entries[k], plan[k]).err,
          connections |-> <<>>,
          made |-> [i \in 1..k |->
                IF i < k THEN innerConnection_close(connect(entries[i], "ok").conn)
                ELSE connect(entries[k], plan[k]).conn]]

(***************************************************************************)
(* initialize                                                              *)
(***************************************************************************)
\* The variants extension payload of the client's initialize params: absent,
\* or variantHints.hints.
NoExtension == [ext |-> FALSE]
WithHints(h) == [ext |-> TRUE, hints |-> h]

\* extractVariantHints
extractVariantHints(params) ==
    IF ~params.ext THEN EmptyVariantHints ELSE [Hints |-> params.hints]

\* The extension payload for the ranked list.
InitPayload(ranked) ==
    [done |-> TRUE,
     availableVariants |->
        [i \in 1..Len(ranked) |->
            [id |-> ranked[i].ID, hints |-> ranked[i].Hints,
             status |-> ranked[i].Status]],
     moreVariantsAvailable |-> Len(ranked) < Len(variants)]

enrichInitResult_noHints(params) ==
    InitPayload(RankedVariants(variants, rankingFunc, EmptyVariantHints))

\* Server.enrichInitResult: the payload put under
\* capabilities.experimental["io.modelcontextprotocol/server-variants"].
enrichInitResult(params) ==
    InitPayload(RankedVariants(variants, rankingFunc, extractVariantHints(params)))

(***************************************************************************)
(* The proxy in stateful mode: sessionMiddleware and the close watcher     *)
(***************************************************************************)
\* The number of session states created in one run.
MaxInits == 2

\* The registry of newTestVariantServer, with the modelFamily hints of the
\* model-optimized example.
TestRegistry ==
    LET one == addVariant(<<>>,
                    ServerVariant(Coding, [modelFamily |-> "anthropic"], Stable),
                    "coding-server", 0).variants
    IN  addVariant(one,
                   ServerVariant(Compact, [modelFamily |-> "openai"], Experimental),
                   "compact-server", 1).variants

\* A registry whose first ID is not valid UTF-8.
ByteRegistry ==
    LET one == addVariant(<<>>, ServerVariant(<<255>>, NoHints, Stable),
                          "coding-server", 0).variants
    IN  addVariant(one, ServerVariant(ReplacementChar, NoHints, Stable),
                   "compact-server", 1).variants

\* The server as assembled by Run (mcpServer(false): one front server, no
\* shared state): registry and ranking function fixed, no front session
\* initialized.
Assembled(registry, fns) ==
    /\ variants = registry
    /\ rankingFunc \in fns
    /\ regCall = NoCall
    /\ CapsIdle
    /\ CodecIdle
    /\ ProxyIdle
    /\ assembled = <<NoState>>
    /\ shared = NoState

Init == Assembled(TestRegistry, RankingFuncs)

\* What clients send.
ClientInitParams ==
    {NoExtension, WithHints([modelFamily |-> "openai"]),
     WithHints([modelFamily |-> "anthropic"])}

ConnectPlans == [1..Len(variants) -> ConnectOutcomes]

\* A selector travels as JSON: a string selector is valid UTF-8.
Selectors ==
    {NoSelector, NonStringSelector, StringSelector(<<>>), StringSelector(Nonexistent)}
        \cup { StringSelector(JsonString(variants[i].variant.ID)) :
                    i \in 1..Len(variants) }

\* "!": not base64.
MalformedCursor == <<33>>

\* One tool of each inner server.
ToolNames == {"analyze_code", "summarize"}

Methods == RoutedMethods \cup {"ping"}

Requests ==
    { NewRequest(m, "nil", NoSelector, <<>>, "") : m \in Methods }
    \cup { NewRequest(m, "present", sel, c, "") :
                m \in ListMethods, sel \in Selectors, c \in {<<>>, MalformedCursor} }
    \cup { NewRequest("tools/call", "present", sel, <<>>, n) :
                sel \in Selectors, n \in ToolNames }
    \cup { NewRequest(m, "present", sel, <<>>, "x") :
                m \in (Methods \ (ListMethods \cup {"tools/call"})), sel \in Selectors }

\* The connect error or the error of next, as the initialize handler returns it.
NextError == PlainError("initialize rejected")

\* What the initialize handler was given and what it returned.
InitReport(s, params, nextOK, plan, err, made, result) ==
    [kind |-> "initialize", s |-> s, params |-> params, nextOK |-> nextOK,
     plan |-> plan, err |-> err, made |-> made, result |-> result]

\* sessionMiddleware, method initialize, after next has succeeded: r is what
\* createSessionState returned, result the enriched initialize result.
\* An initialize handler that returns the enriched result with the state
\* not yet in the session map.
InitializeState_respondFirst(s, params, plan, r, result) ==
    IF r.err # NoError
    THEN /\ last' = InitReport(s, params, TRUE, plan, r.err, r.made, NoInitResult)
         /\ UNCHANGED <<sessions, states, initResult>>
    ELSE /\ states' = Append(states, [owner |-> s, connections |-> r.connections,
                                      pc |-> "wait"])
         /\ initResult' = [initResult EXCEPT ![s] = result]
         /\ last' = InitReport(s, params, TRUE, plan, NoError, r.made, result)
         /\ UNCHANGED sessions

InitializeState(s, params, plan, r, result) ==
    IF r.err # NoError
    THEN /\ last' = InitReport(s, params, TRUE, plan, r.err, r.made, NoInitResult)
         /\ UNCHANGED <<sessions, states, initResult>>
    ELSE /\ states' = Append(states, [owner |-> s, connections |-> r.connections,
                                      pc |-> "wait"])
         /\ sessions' = [sessions EXCEPT ![s] = Len(states) + 1]
         /\ initResult' = [initResult EXCEPT ![s] = result]
         /\ last' = InitReport(s, params, TRUE, plan, NoError, r.made, result)

InitializeShared_perSession(s, params, result) ==
    /\ states' = Append(states,
            [owner |-> s,
             connections |->
                createSessionState(variants, [i \in 1..Len(variants) |-> "ok"]).connections,
             pc |-> "wait"])
    /\ sessions' = [sessions EXCEPT ![s] = Len(states) + 1]
    /\ initResult' = [initResult EXCEPT ![s] = result]
    /\ last' = InitReport(s, params, TRUE, <<>>, NoError, <<>>, result)

\* sessionMiddleware, method initialize, in stateless mode: no state is
\* created.
InitializeShared(s, params, result) ==
    /\ initResult' = [initResult EXCEPT ![s] = result]
    /\ last' = InitReport(s, params, TRUE, <<>>, NoError, <<>>, result)
    /\ UNCHANGED <<sessions, states>>

\* sessionMiddleware of the a-th front server, method initialize: next first,
\* then (stateful mode) createSessionState, sessions.Store and the start of
\* the watcher, then enrichInitResult.
Initialize(a, s, params, nextOK, plan) ==
    /\ last = Idle
    /\ front[s] = "open"
    /\ a \in 1..Len(assembled)
    /\ assembled[a] = NoState => Len(states) < MaxInits
    /\ IF ~nextOK
       THEN /\ last' = InitReport(s, params, FALSE, <<>>, NextError, <<>>, NoInitResult)
            /\ UNCHANGED <<sessions, states, initResult>>
       ELSE IF assembled[a] # NoState
       THEN InitializeShared(s, params, enrichInitResult(params))
       ELSE InitializeState(s, params, plan, createSessionState(variants, plan),
                            enrichInitResult(params))
    /\ UNCHANGED front
    /\ UNCHANGED serverVars
    /\ UNCHANGED pending

LoadState_anySession(a, s) ==
    IF \E x \in Sessions : sessions[x] # NoState
    THEN sessions[CHOOSE x \in Sessions : sessions[x] # NoState]
    ELSE assembled[a]

\* sessionMiddleware of the a-th front server, any other method: the state
\* stored for the session, else the shared state the middleware captured
\* (NoState when there is neither).
LoadState(a, s) == IF sessions[s] # NoState THEN sessions[s] ELSE assembled[a]

DispatchOn_latestState(via, req, fault) ==
    IF via # NoState THEN handle(states[via].connections, req, fault)
    ELSE IF states # <<>> THEN handle(states[Len(states)].connections, req, fault)
    ELSE PassToNext

\* The dispatcher of the state found, or next when there is none.
DispatchOn(via, req, fault) ==
    IF via # NoState THEN handle(states[via].connections, req, fault)
    ELSE PassToNext

\* sessionMiddleware of the a-th front server, any other method.
sessionMiddleware(a, s, req, fault) == DispatchOn(LoadState(a, s), req, fault)

NoSource == [kind |-> "none"]

\* The handler has run: what it was given and what it returned. from tells
\* where the request's cursor came from, listed the items of the pages the
\* client has received along it. The fault is what the inner session does to
\* the call, if one is made.
Handled(a, s, via, req, fault, from, listed, out) ==
    /\ fault # "none" => out.rpc # NoRPC
    /\ last' = [kind |-> "request", a |-> a, s |-> s, via |-> via, req |-> req,
                fault |-> fault, from |-> from,
                listed |-> IF out.result.kind = "list"
                           THEN listed \o out.result.items ELSE <<>>,
                out |-> out]

\* A request with a cursor the client did not get from this server (none, or
\* a malformed one).
Request(a, s, req, fault) ==
    /\ last = Idle
    /\ front[s] = "open"
    /\ a \in 1..Len(assembled)
    /\ Handled(a, s, LoadState(a, s), req, fault, NoSource, <<>>,
               sessionMiddleware(a, s, req, fault))
    /\ UNCHANGED <<front, sessions, states, initResult>>
    /\ UNCHANGED serverVars
    /\ UNCHANGED pending

\* The request that resubmits the nextCursor of the list result in last under
\* the selector meta.
NextPage(meta) ==
    NewRequest(last.req.method, "present", meta, last.out.result.nextCursor, "")

\* The client resubmits the nextCursor it just received, to the same list
\* method, under any selector.
Paginate(s, meta, fault) ==
    /\ last.kind = "request"
    /\ last.s = s
    /\ front[s] = "open"
    /\ last.out.result.kind = "list"
    /\ last.out.result.nextCursor # <<>>
    /\ Handled(last.a, s, LoadState(last.a, s), NextPage(meta), fault,
               [kind |-> "issued", variant |-> last.out.variantID,
                method |-> last.req.method],
               last.listed,
               sessionMiddleware(last.a, s, NextPage(meta), fault))
    /\ UNCHANGED <<front, sessions, states, initResult>>
    /\ UNCHANGED serverVars
    /\ UNCHANGED pending

\* The handler's result goes back to the client.
Respond ==
    /\ last # Idle
    /\ last' = Idle
    /\ UNCHANGED <<front, sessions, states, initResult>>
    /\ UNCHANGED serverVars
    /\ UNCHANGED pending

\* The front session ends (the client disconnects): ss.Wait() returns.
CloseFront(s) ==
    /\ last = Idle
    /\ front[s] = "open"
    /\ front' = [front EXCEPT ![s] = "closed"]
    /\ UNCHANGED <<sessions, states, initResult, last>>
    /\ UNCHANGED serverVars
    /\ UNCHANGED pending

\* The watcher of the i-th state, after ss.Wait(): sessions.Delete(ss).
\* A watcher that closes the state's connections while the entry is in the map.
WatcherDelete_closeFirst(i) ==
    /\ i \in 1..Len(states)
    /\ states[i].pc = "wait"
    /\ front[states[i].owner] = "closed"
    /\ states' = [states EXCEPT ![i].pc = "close",
                                ![i].connections = sessionState_close(@)]
    /\ UNCHANGED <<front, sessions, initResult, last>>
    /\ UNCHANGED serverVars
    /\ UNCHANGED pending

WatcherDelete(i) ==
    /\ i \in 1..Len(states)
    /\ states[i].pc = "wait"
    /\ front[states[i].owner] = "closed"
    /\ sessions' = [sessions EXCEPT ![states[i].owner] = NoState]
    /\ states' = [states EXCEPT ![i].pc = "close"]
    /\ UNCHANGED <<front, initResult, last>>
    /\ UNCHANGED serverVars
    /\ UNCHANGED pending

\* The watcher of the i-th state: state.close().
WatcherClose(i) ==
    /\ i \in 1..Len(states)
    /\ states[i].pc = "close"
    /\ states' = [states EXCEPT ![i].pc = "done",
                                ![i].connections = sessionState_close(@)]
    /\ UNCHANGED <<front, sessions, initResult, last>>
    /\ UNCHANGED serverVars
    /\ UNCHANGED pending

Next ==
    \/ \E a \in 1..Len(assembled), s \in Sessions, params \in ClientInitParams,
          nextOK \in BOOLEAN, plan \in ConnectPlans :
            Initialize(a, s, params, nextOK, plan)
    \/ \E a \in 1..Len(assembled), s \in Sessions, req \in Requests,
          fault \in InnerFaults : Request(a, s, req, fault)
    \/ \E s \in Sessions, meta \in Selectors, fault \in InnerFaults :
            Paginate(s, meta, fault)
    \/ Respond
    \/ \E s \in Sessions : CloseFront(s)
    \/ \E i \in 1..MaxInits : WatcherDelete(i)
    \/ \E i \in 1..MaxInits : WatcherClose(i)

Spec == Init /\ [][Next]_vars

\* The scheduler runs every watcher goroutine that can take a step, and every
\* handler's result is delivered.
FairSpec ==
    /\ Spec
    /\ WF_vars(Respond)
    /\ \A i \in 1..MaxInits : WF_vars(WatcherDelete(i)) /\ WF_vars(WatcherClose(i))

\* The same server over either registry, with the default ranking.
CursorInit == \E registry \in {TestRegistry, ByteRegistry} : Assembled(registry, {"nil"})

CursorSpec == CursorInit /\ [][Next]_vars

(***************************************************************************)
(* Properties of routing                                                   *)
(***************************************************************************)
\* The last handler run was the dispatcher's, for a routed method.
Dispatched ==
    /\ last.kind = "request"
    /\ last.req.method \in RoutedMethods
    /\ ~last.out.passed

RegisteredIDs == { variants[i].variant.ID : i \in 1..Len(variants) }

\* The request of last carries no selector at all.
Unselected == last.req.params = "nil" \/ last.req.meta = NoSelector

\* C1 (as stated): every routed request without a selector is dispatched to
\* the variant at index 0 of the ranked list of the session's initialize
\* response.
C1_DefaultSelection ==
    (Dispatched /\ Unselected) =>
        last.out.variantID = initResult[last.s].availableVariants[1].id

\* The request of last carries a selector, and its value is no registered ID.
SelectsUnregistered ==
    /\ last.req.params = "present"
    /\ last.req.meta.kind # "absent"
    /\ ~(last.req.meta.kind = "string" /\ last.req.meta.value \in RegisteredIDs)

\* The IDs of the registry in the order the ranking function gives them when
\* it is asked without hints.
RankOrderIDs == IDsOf(RankedVariants(variants, rankingFunc, EmptyVariantHints))

\* The error is -32602 "Invalid server variant".
IsInvalidVariant(err) ==
    /\ err.kind = "jsonrpc"
    /\ err.code = CodeInvalidParams
    /\ err.message = "Invalid server variant"
    /\ err.data.kind = "object"
    /\ DOMAIN err.data.obj = {"requestedVariant", "availableVariants"}

C5_ErrorEnrichment ==
    (Dispatched /\ last.out.variantID # <<>> /\ last.out.err # NoError) =>
        IF last.out.err.kind = "jsonrpc"
            /\ last.out.err.code \in {CodeInvalidParams, CodeMethodNotFound}
        THEN /\ last.out.err.data.kind = "object"
             /\ "activeVariant" \in DOMAIN last.out.err.data.obj
             /\ last.out.err.data.obj["activeVariant"] = last.out.variantID
        ELSE last.out.err = last.out.innerErr

\* The inner server behind a registered variant, and its tools.
BackendOf(id) ==
    variants[CHOOSE i \in 1..Len(variants) : variants[i].variant.ID = id].backend

ToolSet(id) == { InnerTools(BackendOf(id))[i] : i \in 1..Len(InnerTools(BackendOf(id))) }

\* C6: under selector A, a tools/call naming a tool of a variant B whose tools
\* are disjoint from A's returns an error; a tools/call naming a tool of A
\* succeeds on A's inner server unless the inner call itself fails; every page
\* of a tools/list holds only tools of A, and the pages up to the one without
\* nextCursor hold exactly A's tools.
C6_NamespaceIsolation ==
    (Dispatched /\ last.req.params = "present" /\ last.req.meta.kind = "string"
        /\ last.req.meta.value \in RegisteredIDs) =>
        /\ (/\ last.req.method = "tools/call"
            /\ \E B \in RegisteredIDs :
                    /\ ToolSet(B) \cap ToolSet(last.req.meta.value) = {}
                    /\ last.req.name \in ToolSet(B)) =>
                /\ last.out.err # NoError
                /\ last.out.result = NoResult
        /\ (/\ last.req.method = "tools/call"
            /\ last.req.name \in ToolSet(last.req.meta.value)
            /\ last.fault = "none") =>
                /\ last.out.err = NoError
                /\ last.out.result.kind = "call"
                /\ last.out.result.server = BackendOf(last.req.meta.value)
                /\ last.out.result.content = last.req.name
        /\ (last.req.method = "tools/list" /\ last.out.err = NoError) =>
                /\ \A i \in 1..Len(last.out.result.items) :
                        last.out.result.items[i] \in ToolSet(last.req.meta.value)
                /\ last.out.result.nextCursor = <<>> =>
                        last.listed = InnerTools(BackendOf(last.req.meta.value))

\* A call of a compact tool under the selector coding failed.
C6_Witness ==
    /\ Dispatched
    /\ last.req.method = "tools/call"
    /\ last.req.meta = StringSelector(Coding)
    /\ last.req.name = "summarize"
    /\ last.out.err # NoError

(***************************************************************************)
(* Properties of cursors                                                   *)
(***************************************************************************)
\* The request of last resubmitted a nextCursor that a list under another
\* registered variant had returned.
CrossVariantCursor ==
    /\ Dispatched
    /\ last.from.kind = "issued"
    /\ last.out.variantID # <<>>
    /\ last.from.variant # last.out.variantID

\* The error is -32602 and names both variants.
NamesBoth(err, cursorVariant, requestedVariant) ==
    /\ err.kind = "jsonrpc"
    /\ err.code = CodeInvalidParams
    /\ err.data.kind = "object"
    /\ "cursorVariant" \in DOMAIN err.data.obj
    /\ "requestedVariant" \in DOMAIN err.data.obj
    /\ err.data.obj["cursorVariant"] = cursorVariant
    /\ err.data.obj["requestedVariant"] = requestedVariant

TornDown(s) ==
    /\ sessions[s] = NoState
    /\ \A i \in 1..Len(states) :
            states[i].owner = s =>
                \A id \in DOMAIN states[i].connections :
                    /\ states[i].connections[id].client = "closed"
                    /\ states[i].connections[id].server = "closed"

\* C7: after a front session closes, eventually every inner connection
\* created for it, by every initialize processed on it, is torn down and the
\* session map has no entry for it.
C7_SessionClosure ==
    \A s \in Sessions : (front[s] = "closed") ~> TornDown(s)

\* A session that was initialized twice is closed and torn down.
C7_Witness ==
    \E s \in Sessions :
        /\ front[s] = "closed"
        /\ Cardinality({ i \in 1..Len(states) : states[i].owner = s }) = 2
        /\ TornDown(s)

\* C8: when the connect of the k-th variant fails, initialize returns that
\* error, the connections made for variants 1..k-1 are closed, a half-opened
\* k-th connection is closed, and the session map, the states and the
\* session's initialize result are as before.
C8_AtomicInitialize ==
    [][ (/\ last = Idle
         /\ last'.kind = "initialize"
         /\ last'.nextOK
         /\ FirstFailure(variants, last'.plan) > 0) =>
            LET k == FirstFailure(variants, last'.plan) IN
            /\ last'.err = ConnectError(last'.plan[k])
            /\ last'.result = NoInitResult
            /\ Len(last'.made) = k
            /\ \A j \in 1..(k - 1) :
                    /\ last'.made[j].backend = variants[j].backend
                    /\ last'.made[j].client = "closed"
                    /\ last'.made[j].server = "closed"
            /\ last'.plan[k] = "clientFail" =>
                    /\ last'.made[k].server = "closed"
                    /\ last'.made[k].client = "none"
            /\ last'.plan[k] = "serverFail" =>
                    /\ last'.made[k].server = "none"
                    /\ last'.made[k].client = "none"
            /\ sessions' = sessions
            /\ states' = states
            /\ initResult' = initResult ]_vars

\* The connect of the second variant failed after the first had connected,
\* the proxy client being the side that failed.
C8_Witness ==
    /\ last.kind = "initialize"
    /\ last.nextOK
    /\ last.plan = <<"ok", "clientFail">>
    /\ last.err # NoError

(***************************************************************************)
(* Ranking on its own: any registry, ranked by the default ranking         *)
(***************************************************************************)
\* A status value the package does not define.
Beta == "beta"

RankStatuses == {Stable, Experimental, Deprecated, "", Beta}
RankPriorities == {0, 1, 2}

\* The hints clients rank with.
RankHints == {EmptyVariantHints, [Hints |-> [modelFamily |-> "openai"]]}

\* Server.RankedVariants(ctx, hints) on the registry as it stands.
RankedVariantsCall(hints) ==
    /\ regCall' = [op |-> "RankedVariants", hints |-> hints, before |-> variants,
                   result |-> RankedVariants(variants, rankingFunc, hints)]
    /\ UNCHANGED <<variants, rankingFunc>>

RankNext ==
    /\ \/ \E id \in RegistryIDs, st \in RankStatuses, p \in RankPriorities :
            WithVariant(id, st, p)
       \/ \E hints \in RankHints : RankedVariantsCall(hints)
    /\ UNCHANGED <<capsIn, capsOut, codec>>
    /\ UNCHANGED proxyVars
    /\ UNCHANGED assemblyVars

\* A server with no custom ranking function, ranked after any registration.
RankSpec == RegistryInit /\ [][RankNext]_vars

\* The position of the variant with this ID in a list of variants.
PositionOf(vs, id) == CHOOSE i \in 1..Len(vs) : vs[i].ID = id

\* vs lists exactly the variants of all, each once.
IsPermutation(vs, all) ==
    /\ Len(vs) = Len(all)
    /\ \A i \in 1..Len(all) : \E j \in 1..Len(vs) : vs[j] = all[i]

\* vs is all sorted by (priority, weight), registration order kept among
\* equal keys.
SortedByPriorityAndWeight(vs, all, weight(_)) ==
    /\ IsPermutation(vs, all)
    /\ \A i, j \in 1..Len(vs) : i < j =>
            \/ vs[i].priority < vs[j].priority
            \/ /\ vs[i].priority = vs[j].priority
               /\ weight(vs[i].Status) < weight(vs[j].Status)
            \/ /\ vs[i].priority = vs[j].priority
               /\ weight(vs[i].Status) = weight(vs[j].Status)
               /\ PositionOf(all, vs[i].ID) < PositionOf(all, vs[j].ID)

\* The weights as the sentence lists them: every status other than the three
\* named ones is unknown.
NamedWeight(s) ==
    CASE s = Stable -> 0
      [] s = Experimental -> 1
      [] s = Deprecated -> 2
      [] OTHER -> 3

\* The weights with the unset status counted as stable.
UnsetIsStableWeight(s) == IF s = "" THEN 0 ELSE NamedWeight(s)

DistinctPriorities(vs) ==
    \A i, j \in 1..Len(vs) : i # j => vs[i].priority # vs[j].priority

\* What every call of the default ranking returns, apart from the weights.
DefaultRankingOf(weight(_)) ==
    regCall.op = "RankedVariants" =>
        /\ SortedByPriorityAndWeight(regCall.result, Variants(variants), weight)
        /\ \A h \in RankHints :
                RankedVariants(variants, rankingFunc, h) = regCall.result
        /\ DistinctPriorities(regCall.result) =>
                \A i, j \in 1..Len(regCall.result) : i < j =>
                    regCall.result[i].priority < regCall.result[j].priority

\* C11 as stated: with no custom ranking function, RankedVariants returns the
\* registered variants sorted by (priority, status weight) with the weights
\* stable=0, experimental=1, deprecated=2 and 3 for every other status,
\* registration order kept among equal keys; the result does not depend on
\* the hints, and with pairwise distinct priorities it is in ascending priority.
C11_DefaultRanking == DefaultRankingOf(NamedWeight)

\* C11: the same, with the unset status "" weighing 0 like stable.
C11_DefaultRankingUnsetAsStable == DefaultRankingOf(UnsetIsStableWeight)

\* Three variants of one priority were ranked: one of an unknown status, one
\* with no status and a deprecated one, the one with no status coming first.
C11_Witness ==
    /\ regCall.op = "RankedVariants"
    /\ Len(regCall.result) = 3
    /\ \A i \in 1..3 : regCall.result[i].priority = 1
    /\ regCall.result[1].Status = ""
    /\ regCall.result[2].Status = Deprecated
    /\ regCall.result[3].Status = Beta
    /\ Variants(variants)[1].Status = Beta

(***************************************************************************)
(* Properties of initialize                                                *)
(***************************************************************************)
\* The last handler run was a successful initialize.
Initialized ==
    /\ last.kind = "initialize"
    /\ last.err = NoError

\* The first stable variant of vs moved to the front, the others in order.
PromoteFirstStable(vs) ==
    IF \A i \in 1..Len(vs) : vs[i].Status # Stable THEN vs
    ELSE LET k == CHOOSE i \in 1..Len(vs) :
                    /\ vs[i].Status = Stable
                    /\ \A j \in 1..(i - 1) : vs[j].Status # Stable
         IN  <<vs[k]>> \o [i \in 1..(Len(vs) - 1) |-> IF i < k THEN vs[i] ELSE vs[i + 1]]

\* The IDs of the availableVariants of an initialize payload, in order.
AvailableIDs(payload) ==
    [i \in 1..Len(payload.availableVariants) |-> payload.availableVariants[i].id]

\* C12: under a custom ranking function, when some registered variant is
\* stable (no client of this model asks for experimental variants), the
\* availableVariants of every initialize response are the ranker's output
\* with its first stable variant promoted to the front, so that the first
\* element is stable.
C12_StableFirst ==
    (/\ Initialized
     /\ rankingFunc # "nil"
     /\ \E i \in 1..Len(variants) : variants[i].variant.Status = Stable) =>
        /\ last.result.availableVariants[1].status = Stable
        /\ AvailableIDs(last.result) =
                IDsOf(PromoteFirstStable(
                    RankedVariants(variants, rankingFunc,
                                   extractVariantHints(last.params))))

(***************************************************************************)
(* Concurrent clients: a handler in two steps, the lookup of the session's *)
(* state and the dispatch, so that the handlers of two sessions, further   *)
(* initializes and the close watchers interleave between the two           *)
(***************************************************************************)
\* What the two clients of TestIntegration_HTTP send: tools/list and tools/call
\* under either registered variant.
IsolationRequests ==
    { NewRequest("tools/list", "present", StringSelector(id), <<>>, "") :
            id \in {Coding, Compact} }
    \cup { NewRequest("tools/call", "present", StringSelector(id), <<>>, n) :
            id \in {Coding, Compact}, n \in ToolNames }

\* sessionMiddleware up to the lookup: sessions.Load(ss), else shared.
Receive(a, s, req) ==
    /\ front[s] = "open"
    /\ a \in 1..Len(assembled)
    /\ pending[s] = NoPending
    /\ pending' = [pending EXCEPT ![s] = [kind |-> "loaded", a |-> a, req |-> req,
                                          via |-> LoadState(a, s)]]
    /\ UNCHANGED <<front, sessions, states, initResult, last>>
    /\ UNCHANGED serverVars

\* sessionMiddleware from the lookup on: dispatcher.handle on the state found.
Forward(s) ==
    /\ last = Idle
    /\ pending[s] # NoPending
    /\ Handled(pending[s].a, s, pending[s].via, pending[s].req, "none", NoSource,
               <<>>, DispatchOn(pending[s].via, pending[s].req, "none"))
    /\ pending' = [pending EXCEPT ![s] = NoPending]
    /\ UNCHANGED <<front, sessions, states, initResult>>
    /\ UNCHANGED serverVars

\* Every connect succeeds.
AllConnect == [i \in 1..Len(variants) |-> "ok"]

IsolationNext ==
    \/ \E s \in Sessions : Initialize(1, s, NoExtension, TRUE, AllConnect)
    \/ \E s \in Sessions, req \in IsolationRequests : Receive(1, s, req)
    \/ \E s \in Sessions : Forward(s)
    \/ Respond
    \/ \E s \in Sessions : CloseFront(s)
    \/ \E i \in 1..MaxInits : WatcherDelete(i)
    \/ \E i \in 1..MaxInits : WatcherClose(i)

IsolationSpec == Assembled(TestRegistry, {"nil"}) /\ [][IsolationNext]_vars

\* C13: whatever the interleaving, the state a handler of session S looked
\* up, and the one a request of S was forwarded over, was created by an
\* initialize of S; the request goes to the variant it selected, and a result
\* is that variant's: a call ran on its inner server, a list holds its tools.
C13_CrossClientIsolation ==
    /\ \A s \in Sessions :
            (pending[s] # NoPending /\ pending[s].via # NoState) =>
                states[pending[s].via].owner = s
    /\ (last.kind = "request" /\ last.out.rpc # NoRPC) =>
            /\ last.via # NoState
            /\ states[last.via].owner = last.s
            /\ last.out.variantID = last.req.meta.value
            /\ (last.out.err = NoError /\ last.req.method = "tools/call") =>
                    last.out.result.server = BackendOf(last.req.meta.value)
            /\ (last.out.err = NoError /\ last.req.method = "tools/list") =>
                    \A i \in 1..Len(last.out.result.items) :
                        last.out.result.items[i] \in ToolSet(last.req.meta.value)

\* Both sessions hold a state; a call of s1 under coding has been answered by
\* the coding server while a request of s2 under compact is in flight.
C13_Witness ==
    /\ sessions["s1"] # NoState
    /\ sessions["s2"] # NoState
    /\ last.kind = "request"
    /\ last.s = "s1"
    /\ last.req.method = "tools/call"
    /\ last.req.meta = StringSelector(Coding)
    /\ last.out.rpc # NoRPC
    /\ last.out.err = NoError
    /\ last.out.result.server = "coding-server"
    /\ pending["s2"] # NoPending
    /\ pending["s2"].req.meta = StringSelector(Compact)
    /\ pending["s2"].via = sessions["s2"]

(***************************************************************************)
(* Notifications of the inner sessions                                     *)
(***************************************************************************)
MetaKeyVariant == "io.modelcontextprotocol/server-variant"

\* frontSession == nil: the connection was made for a shared state.
NilSession == "nil"

\* The _meta of a notification's params: nil, or a map of entries.
NoMeta == [k \in {} |-> <<>>]

injectVariantMeta_replace(meta, variantID) ==
    [k \in {MetaKeyVariant} |-> variantID]

\* injectVariantMeta: the _meta of the params afterwards.
injectVariantMeta(meta, variantID) == MapPut(meta, MetaKeyVariant, variantID)

\* What a handler of the proxy client did with a notification: the front
\* sessions it emitted it on, with which _meta.
Emitted(to, meta) == [sentTo |-> to, meta |-> meta]

ProgressNotificationHandler_broadcast(frontSession, variantID, meta) ==
    Emitted(IF frontSession # NilSession THEN {frontSession} ELSE Sessions,
            injectVariantMeta(meta, variantID))

\* ClientOptions.ProgressNotificationHandler of inMemoryBackend.connect
ProgressNotificationHandler(frontSession, variantID, meta) ==
    IF frontSession # NilSession
    THEN Emitted({frontSession}, injectVariantMeta(meta, variantID))
    ELSE Emitted({}, meta)

\* ClientOptions.LoggingMessageHandler of inMemoryBackend.connect
LoggingMessageHandler(frontSession, variantID, meta) ==
    IF frontSession # NilSession
    THEN Emitted({frontSession}, injectVariantMeta(meta, variantID))
    ELSE Emitted({}, meta)

\* ToolListChangedHandler, ResourceListChangedHandler,
\* PromptListChangedHandler, ResourceUpdatedHandler: empty functions.
AbsorbingHandler(frontSession, variantID, meta) == Emitted({}, meta)

ForwardedKinds == {"progress", "logging"}

AbsorbedKinds ==
    {"toolListChanged", "resourceListChanged", "promptListChanged", "resourceUpdated"}

\* The handler the proxy client of a connection runs for a notification.
ClientHandler(frontSession, variantID, kind, meta) ==
    CASE kind = "progress" -> ProgressNotificationHandler(frontSession, variantID, meta)
      [] kind = "logging" -> LoggingMessageHandler(frontSession, variantID, meta)
      [] OTHER -> AbsorbingHandler(frontSession, variantID, meta)

\* The _meta inner servers send: none, a progress token, or entries that
\* already hold a variant.
NoteMetas ==
    {NoMeta,
     [k \in {"progressToken"} |-> <<116>>],
     [k \in {"traceId", MetaKeyVariant} |-> IF k = "traceId" THEN <<120>> ELSE Legacy]}

\* The inner server of connection id of the i-th state emits a notification;
\* the proxy client of that connection handles it.
Notify(i, id, kind, meta) ==
    /\ last = Idle
    /\ i \in 1..Len(states)
    /\ id \in DOMAIN states[i].connections
    /\ states[i].connections[id].server = "open"
    /\ states[i].connections[id].client = "open"
    /\ last' = [kind |-> "notification", state |-> i, variant |-> id, note |-> kind,
                meta |-> meta,
                handled |-> ClientHandler(states[i].owner, id, kind, meta)]
    /\ UNCHANGED <<front, sessions, states, initResult>>
    /\ UNCHANGED serverVars
    /\ UNCHANGED pending

(***************************************************************************)
(* Stateless assembly and Close; the proxy in either mode                  *)
(***************************************************************************)
\* The number of front servers built on one Server.
MaxAssemblies == 2

\* A nil pointer, and the *Server this model follows.
NilPointer == "nil"
TheServer == "vs"

\* How a call NewStreamableHTTPHandler(vs, opts) ended: with a panic or with a
\* handler; made lists the inner connections the call created.
HandlerReport(vs, panicked, made) ==
    [op |-> "NewStreamableHTTPHandler", vs |-> vs, panicked |-> panicked,
     made |-> made]

\* mcpServer(true) once discoverCapabilities and createSessionState(ctx, nil)
\* have returned r: an error leaves the Server as it was, otherwise the shared
\* state is stored in s.shared and captured by the new server's middleware.
mcpServerShared(capsOK, r) ==
    IF Len(variants) = 0 \/ ~capsOK
    THEN /\ regCall' = HandlerReport(TheServer, TRUE, <<>>)
         /\ UNCHANGED <<states, assembled, shared>>
    ELSE IF r.err # NoError
    THEN /\ regCall' = HandlerReport(TheServer, TRUE, r.made)
         /\ UNCHANGED <<states, assembled, shared>>
    ELSE /\ states' = Append(states, [owner |-> NilSession,
                                      connections |-> r.connections,
                                      pc |-> "shared"])
         /\ shared' = Len(states) + 1
         /\ assembled' = Append(assembled, Len(states) + 1)
         /\ regCall' = HandlerReport(TheServer, FALSE, r.made)

\* NewStreamableHTTPHandler(vs, &mcp.StreamableHTTPOptions{Stateless: true}),
\* on a Server that serves stateless handlers only. capsOK: the capability
\* probes succeed; plan: how the connects end.
NewStreamableHTTPHandler(capsOK, plan) ==
    /\ Len(assembled) < MaxAssemblies
    /\ \A a \in 1..Len(assembled) : assembled[a] # NoState
    /\ mcpServerShared(capsOK, createSessionState(variants, plan))
    /\ UNCHANGED <<variants, rankingFunc, capsIn, capsOut, codec>>
    /\ UNCHANGED <<front, sessions, initResult, last, pending>>

\* backend.close(): nil for an in-memory backend ("nil"); another
\* implementation of the interface may return an error ("fail").
backend_close(entry, outcome) ==
    IF outcome = "nil" THEN NoError ELSE PlainError("close " \o entry.backend)

\* The loop of Close that returns at the first error.
RECURSIVE closeBackends_stopAtError(_, _, _, _)
closeBackends_stopAtError(entries, outcomes, i, acc) ==
    IF i > Len(entries) THEN acc
    ELSE IF backend_close(entries[i], outcomes[i]) # NoError
    THEN [closed |-> Append(acc.closed, entries[i].backend),
          firstErr |-> backend_close(entries[i], outcomes[i])]
    ELSE closeBackends_stopAtError(entries, outcomes, i + 1,
            [closed |-> Append(acc.closed, entries[i].backend),
             firstErr |-> acc.firstErr])

\* The loop of Close over s.variants from the i-th entry on: the backends
\* closed so far and the first error.
RECURSIVE closeBackends(_, _, _, _)
closeBackends(entries, outcomes, i, acc) ==
    IF i > Len(entries) THEN acc
    ELSE closeBackends(entries, outcomes, i + 1,
            [closed |-> Append(acc.closed, entries[i].backend),
             firstErr |-> IF backend_close(entries[i], outcomes[i]) # NoError
                             /\ acc.firstErr = NoError
                          THEN backend_close(entries[i], outcomes[i])
                          ELSE acc.firstErr])

\* Server.Close: s.shared is closed and forgotten, then every backend is
\* closed; outcomes[i] is what the close of the i-th backend returns.
Close(outcomes) ==
    /\ regCall' = [op |-> "Close", shared |-> shared, outcomes |-> outcomes,
                   closed |-> closeBackends(variants, outcomes, 1,
                                    [closed |-> <<>>, firstErr |-> NoError]).closed,
                   err |-> closeBackends(variants, outcomes, 1,
                                    [closed |-> <<>>, firstErr |-> NoError]).firstErr]
    /\ IF shared # NoState
       THEN /\ states' = [states EXCEPT ![shared].connections = sessionState_close(@),
                                        ![shared].pc = "closed"]
            /\ shared' = NoState
       ELSE UNCHANGED <<states, shared>>
    /\ UNCHANGED <<variants, rankingFunc, capsIn, capsOut, codec, assembled>>
    /\ UNCHANGED <<front, sessions, initResult, last, pending>>

\* Server.Close over in-memory backends, whose close returns nil.
ServerClose == Close([i \in 1..Len(variants) |-> "nil"])

\* A Server on which mcpServer has not been called.
Unassembled(registry, fns) ==
    /\ variants = registry
    /\ rankingFunc \in fns
    /\ regCall = NoCall
    /\ CapsIdle
    /\ CodecIdle
    /\ ProxyIdle
    /\ NotAssembled

\* The server either runs in stateful mode (Run) or is about to be served
\* through stateless handlers.
ModesInit ==
    \/ Assembled(TestRegistry, RankingFuncs \cup {"stableOnly"})
    \/ Unassembled(TestRegistry, RankingFuncs \cup {"stableOnly"})

\* What clients send in either mode: lists and calls with and without a
\* selector, and ping with and without one.
ModesRequests ==
    { NewRequest("tools/list", "present", sel, <<>>, "") :
            sel \in {NoSelector, StringSelector(Compact)} }
    \cup { NewRequest("tools/call", "present", sel, <<>>, n) :
            sel \in {NoSelector, StringSelector(Compact)}, n \in ToolNames }
    \cup { NewRequest("ping", "present", sel, <<>>, "") :
            sel \in {NoSelector, StringSelector(Nonexistent), StringSelector(Coding)} }
    \cup { NewRequest("ping", "nil", NoSelector, <<>>, "") }

ModesNext ==
    \/ \E capsOK \in BOOLEAN, plan \in ConnectPlans :
            NewStreamableHTTPHandler(capsOK, plan)
    \/ ServerClose
    \/ \E a \in 1..Len(assembled), s \in Sessions, params \in ClientInitParams,
          nextOK \in BOOLEAN : Initialize(a, s, params, nextOK, AllConnect)
    \/ \E a \in 1..Len(assembled), s \in Sessions, req \in ModesRequests :
            Request(a, s, req, "none")
    \/ \E i \in 1..Len(states), id \in RegisteredIDs,
          kind \in ForwardedKinds \cup AbsorbedKinds, meta \in NoteMetas :
            Notify(i, id, kind, meta)
    \/ Respond
    \/ \E s \in Sessions : CloseFront(s)
    \/ \E i \in 1..MaxInits : WatcherDelete(i)
    \/ \E i \in 1..MaxInits : WatcherClose(i)

ModesSpec == ModesInit /\ [][ModesNext]_vars

(***************************************************************************)
(* Properties of the proxy in either mode                                  *)
(***************************************************************************)
\* The last handler ran on a front server in stateless mode.
OnSharedServer == assembled[last.a] # NoState

\* The availableVariants entries for a ranked list.
Listing(ranked) ==
    [i \in 1..Len(ranked) |->
        [id |-> ranked[i].ID, hints |-> ranked[i].Hints, status |-> ranked[i].Status]]

UnawareSession ==
    /\ initResult[last.s].done
    /\ initResult[last.s] = enrichInitResult(NoExtension)

\* The variant listed first in the initialize response of last's session.
ListedFirst == initResult[last.s].availableVariants[1].id

\* C15: a routed request without a selector, on a session initialized without
\* hints, is dispatched to the variant listed first in that session's
\* initialize response, which under the default ranker has the lowest
\* priority value; a call of a tool that only another variant has fails, and
\* a call that succeeds ran on the first variant's inner server.
C15_VariantUnaware ==
    (Dispatched /\ Unselected /\ UnawareSession) =>
        /\ last.out.variantID = ListedFirst
        /\ last.out.rpc # NoRPC
        /\ rankingFunc = "nil" =>
                \A i, j \in 1..Len(variants) :
                    variants[i].variant.ID = ListedFirst =>
                        variants[i].variant.priority <= variants[j].variant.priority
        /\ (last.req.method = "tools/call" /\ last.req.name \notin ToolSet(ListedFirst)) =>
                /\ last.out.err # NoError
                /\ last.out.result = NoResult
        /\ (last.req.method = "tools/call" /\ last.out.err = NoError) =>
                last.out.result.server = BackendOf(ListedFirst)

\* Under the hint-sensitive ranker, a client that sent no hints called a tool
\* of compact without a selector; the call went to coding and failed.
C15_Witness ==
    /\ Dispatched
    /\ Unselected
    /\ UnawareSession
    /\ rankingFunc = "modelFamily"
    /\ last.req.method = "tools/call"
    /\ last.req.name = "summarize"
    /\ last.out.variantID = Coding
    /\ last.out.innerErr # NoError
    /\ states[last.via].connections[Coding].client = "open"

\* C16: a request of a method that is neither initialize nor one of the ten
\* routed methods is handed to the front server's next handler, whose result
\* is returned, and no call is made on an inner session, with or without a
\* selector, registered or not, and whether or not the session has a state.
C16_PassThrough ==
    /\ Cardinality(RoutedMethods) = 10
    /\ (last.kind = "request" /\ last.req.method \notin RoutedMethods) =>
            /\ last.out.passed
            /\ last.out = PassToNext
            /\ last.out.rpc = NoRPC
            /\ last.out.variantID = <<>>
            /\ last.out.err = NoError

\* A ping that selects an unregistered variant, on a session that has a
\* state, was passed to next.
C16_Witness ==
    /\ last.kind = "request"
    /\ last.req.method = "ping"
    /\ last.req.meta = StringSelector(Nonexistent)
    /\ last.via # NoState
    /\ states[last.via].owner = last.s
    /\ last.out.passed

(***************************************************************************)
(* Properties of notifications                                             *)
(***************************************************************************)
\* The front session the connections of the state of last's notification
\* were made for.
NoteOwner == states[last.state].owner

\* C17: in stateful mode, a progress or logging notification from the inner
\* server of variant V in a state made for front session S is emitted on S
\* and on no other front session, its _meta holding V under the variant key
\* and every other entry it had.
C17_NotificationProvenance ==
    (/\ last.kind = "notification"
     /\ last.note \in ForwardedKinds
     /\ NoteOwner \in Sessions) =>
        /\ states[last.state].connections[last.variant].backend = BackendOf(last.variant)
        /\ last.handled.sentTo = {NoteOwner}
        /\ DOMAIN last.handled.meta = (DOMAIN last.meta) \cup {MetaKeyVariant}
        /\ last.handled.meta[MetaKeyVariant] = last.variant
        /\ \A k \in (DOMAIN last.meta) \ {MetaKeyVariant} :
                last.handled.meta[k] = last.meta[k]

\* While both sessions hold a state, the compact server of s2's state sent a
\* progress notification whose _meta named another variant and a trace ID.
C17_Witness ==
    /\ last.kind = "notification"
    /\ last.note = "progress"
    /\ last.variant = Compact
    /\ NoteOwner = "s2"
    /\ sessions["s1"] # NoState
    /\ "traceId" \in DOMAIN last.meta
    /\ last.meta[MetaKeyVariant] = Legacy
    /\ last.handled.sentTo = {"s2"}

OpenConnections(i) ==
    { id \in DOMAIN states[i].connections :
        /\ states[i].connections[id].client = "open"
        /\ states[i].connections[id].server = "open" }

\* The states made as shared state (with a nil front session).
SharedStates == { i \in 1..Len(states) : states[i].owner = NilSession }

\* C19: whatever stateless assemblies and Close calls were made, a successful
\* assembly has made a shared state and left it in s.shared, and when Close
\* has returned no connection of any shared state is open.
C19_StatelessReclamation ==
    /\ (regCall.op = "NewStreamableHTTPHandler" /\ ~regCall.panicked) =>
            /\ shared # NoState
            /\ shared = assembled[Len(assembled)]
            /\ states[shared].owner = NilSession
            /\ Cardinality(OpenConnections(shared)) = Len(variants)
    /\ regCall.op = "Close" =>
            /\ shared = NoState
            /\ \A i \in SharedStates : OpenConnections(i) = {}

Implementations == {NilPointer, "test-server"}

\* NewServer(impl): a nil impl panics and no Server is made; otherwise the
\* caller holds a new Server with no variants and no ranking function.
NewServer(impl) ==
    /\ assembled = <<>>
    /\ IF impl = NilPointer
       THEN /\ regCall' = [op |-> "NewServer", impl |-> impl, panicked |-> TRUE]
            /\ UNCHANGED <<variants, rankingFunc>>
       ELSE /\ regCall' = [op |-> "NewServer", impl |-> impl, panicked |-> FALSE]
            /\ variants' = <<>>
            /\ rankingFunc' = "nil"
    /\ UNCHANGED <<capsIn, capsOut, codec>>
    /\ UNCHANGED proxyVars
    /\ UNCHANGED assemblyVars

\* A backend that advertises tools.
ToolsOnlyCaps == [EmptyCaps EXCEPT !.Tools = [present |-> TRUE, ListChanged |-> FALSE]]

\* What the capabilities() of the backends return during one assembly.
ProbeResults == [1..Len(variants) -> {ToolsOnlyCaps, NilCaps, ProbeError}]

\* mcpServer from its start to the return of discoverCapabilities: the error
\* it returns there, if any. With no variants no backend is probed.
mcpServerError(results) ==
    Len(variants) = 0 \/ discoverCapabilities(results).err

\* The probes of one call of mcpServer, as the call leaves them.
Probed(results) ==
    IF Len(variants) = 0 THEN UNCHANGED <<capsIn, capsOut>>
    ELSE /\ capsIn' = results
         /\ capsOut' = [done |-> TRUE, err |-> discoverCapabilities(results).err,
                        caps |-> discoverCapabilities(results).caps]

mcpServerPerSession_noCheck(failed) ==
    /\ assembled' = Append(assembled, NoState)
    /\ UNCHANGED <<states, shared>>

\* mcpServer(false): on an error no front server is made; otherwise the new
\* front server's middleware holds no shared state.
mcpServerPerSession(failed) ==
    IF failed THEN UNCHANGED <<states, assembled, shared>>
    ELSE /\ assembled' = Append(assembled, NoState)
         /\ UNCHANGED <<states, shared>>

\* Server.Run(ctx, t) up to srv.Run: an error of mcpServer is returned. The
\* Server has no front server yet, so s.shared is nil and the deferred Close
\* finds nothing to close.
Run(results) ==
    /\ assembled = <<>>
    /\ Probed(results)
    /\ mcpServerPerSession(mcpServerError(results))
    /\ regCall' = [op |-> "Run", err |-> mcpServerError(results)]
    /\ UNCHANGED <<variants, rankingFunc, codec>>
    /\ UNCHANGED <<front, sessions, initResult, last, pending>>

\* NewStreamableHTTPHandler(vs, opts) with opts.Stateless = stateless: a nil vs
\* panics, and so does an error of mcpServer. One Server is served by one
\* stateful front server or by stateless ones.
NewStreamableHTTPHandlerCall(vs, stateless, results, plan) ==
    /\ Len(assembled) < MaxAssemblies
    /\ IF stateless THEN \A a \in 1..Len(assembled) : assembled[a] # NoState
       ELSE assembled = <<>>
    /\ IF vs = NilPointer
       THEN /\ regCall' = HandlerReport(vs, TRUE, <<>>)
            /\ UNCHANGED <<states, assembled, shared, capsIn, capsOut>>
       ELSE /\ Probed(results)
            /\ IF stateless
               THEN mcpServerShared(~mcpServerError(results),
                                    createSessionState(variants, plan))
               ELSE /\ mcpServerPerSession(mcpServerError(results))
                    /\ regCall' = HandlerReport(vs, mcpServerError(results), <<>>)
    /\ UNCHANGED <<variants, rankingFunc, codec>>
    /\ UNCHANGED <<front, sessions, initResult, last, pending>>

\* Server.WithVariant, on the Server whatever has been assembled from it.
Register(id, status, priority) ==
    /\ WithVariant(id, status, priority)
    /\ UNCHANGED <<capsIn, capsOut, codec>>
    /\ UNCHANGED proxyVars
    /\ UNCHANGED assemblyVars

\* Server.WithRanking, on the Server whatever has been assembled from it.
Rerank(fn) ==
    /\ WithRanking(fn)
    /\ UNCHANGED <<capsIn, capsOut, codec>>
    /\ UNCHANGED proxyVars
    /\ UNCHANGED assemblyVars

\* What the clients of a server under construction send: a list and a call
\* without a selector, and a list that selects an unregistered variant.
BuildRequests ==
    { NewRequest("tools/list", "present", sel, <<>>, "") :
            sel \in {NoSelector, StringSelector(Nonexistent)} }
    \cup { NewRequest("tools/call", "present", NoSelector, <<>>, "analyze_code") }

BuildNext ==
    \/ \E impl \in Implementations : NewServer(impl)
    \/ \E id \in {Coding, Compact}, p \in RegistryPriorities : Register(id, Stable, p)
    \/ \E fn \in RankingFuncs : Rerank(fn)
    \/ \E results \in ProbeResults : Run(results)
    \/ \E vs \in {NilPointer, TheServer}, stateless \in BOOLEAN,
          results \in ProbeResults :
            NewStreamableHTTPHandlerCall(vs, stateless, results, AllConnect)
    \/ \E a \in 1..Len(assembled) : Initialize(a, "s1", NoExtension, TRUE, AllConnect)
    \/ \E a \in 1..Len(assembled), req \in BuildRequests : Request(a, "s1", req, "none")
    \/ Respond

\* A Server from NewServer on: built, assembled, served and, as nothing in the
\* code prevents it, registered to afterwards.
BuildSpec == RegistryInit /\ [][BuildNext]_vars

\* C21: once a front server has been assembled, every call of WithVariant or
\* WithRanking panics, and the registered variants and the ranking function
\* that sessions and dispatchers read stay as they were.
C21_ReadOnlyRegistry ==
    [][ assembled # <<>> =>
            /\ variants' = variants
            /\ rankingFunc' = rankingFunc
            /\ (regCall' # regCall /\ regCall'.op \in {"WithVariant", "WithRanking"}) =>
                    regCall'.panicked ]_vars

\* The call of last step was an assembly, and this is how it ended.
AssemblyFailed(call) ==
    IF call.op = "Run" THEN call.err ELSE call.panicked

\* C27: NewServer panics exactly for a nil Implementation, and then no Server
\* is made; NewStreamableHTTPHandler panics for a nil Server; an assembly by
\* Run or NewStreamableHTTPHandler of a Server without variants, or one during
\* which the capability probe of any backend fails, ends in an error (Run) or
\* a panic (the handler constructor) and leaves no front server, no shared
\* state and no session behind; every front server that exists was assembled
\* from a registry that was not empty.
C27_ConstructionErrors ==
    [][ /\ (regCall' # regCall /\ regCall'.op = "NewServer") =>
                /\ regCall'.panicked <=> regCall'.impl = NilPointer
                /\ regCall'.panicked => UNCHANGED <<variants, rankingFunc>>
                /\ ~regCall'.panicked => variants' = <<>>
        /\ (regCall' # regCall /\ regCall'.op \in {"Run", "NewStreamableHTTPHandler"}) =>
                /\ (\/ Len(variants) = 0
                    \/ \E i \in 1..Len(capsIn') : IsProbeError(capsIn'[i])
                    \/ regCall'.op = "NewStreamableHTTPHandler"
                            /\ regCall'.vs = NilPointer) =>
                        /\ AssemblyFailed(regCall')
                /\ AssemblyFailed(regCall') =>
                        /\ UNCHANGED <<assembled, shared, states>>
                        /\ UNCHANGED proxyVars
        /\ assembled' # <<>> => Len(variants') > 0 ]_vars

\* A Run of a Server with two variants failed on the probe of the second
\* backend, and no front server exists.
C27_Witness ==
    /\ regCall.op = "Run"
    /\ regCall.err
    /\ Len(variants) = 2
    /\ Len(capsIn) = 2
    /\ ~IsProbeError(capsIn[1])
    /\ IsProbeError(capsIn[2])
    /\ assembled = <<>>

(***************************************************************************)
(* Properties of the session map                                           *)
(***************************************************************************)
\* The states stored in the session map under the key s, one per
\* sessions.Store, and those whose watcher has run sessions.Delete.
StoresFor(s) == { i \in 1..Len(states) : states[i].owner = s }
DeletesFor(s) == { i \in StoresFor(s) : states[i].pc \in {"close", "done"} }

\* C22: in stateful mode the entry of a front session is stored at most once
\* and deleted at most once, whatever the session sends; it is stored only
\* while the session is open and has no entry, and after the close of a
\* session that had one it is deleted once.
C22_SessionMapDiscipline ==
    /\ [](\A s \in Sessions :
            /\ Cardinality(StoresFor(s)) <= 1
            /\ Cardinality(DeletesFor(s)) <= 1)
    /\ [][ \A s \in Sessions :
            (sessions'[s] # sessions[s] /\ sessions'[s] # NoState) =>
                /\ front[s] = "open"
                /\ sessions[s] = NoState ]_vars

(***************************************************************************)
(* enrichError on its own: any error, as an object on a heap so that the   *)
(* error returned can be the one received                                  *)
(***************************************************************************)
EnrichCodes == {CodeInvalidParams, CodeMethodNotFound, CodeInternalError}

\* The Data an inner server attaches to an error: none, null, a value that is
\* no object, and objects with a string, a small number, a number above 2^53,
\* and a member called activeVariant.
EnrichData ==
    {NoData, NullData, ScalarData,
     ObjectData([detail |-> JsonText("inner")]),
     ObjectData([line |-> JsonNumber(0, 42)]),
     ObjectData([resourceId |-> JsonNumber(90071992, 54740993)]),
     ObjectData([activeVariant |-> JsonText("stale"), detail |-> JsonText("inner")])}

\* The errors an inner client session returns: a *jsonrpc.Error, one wrapped
\* with the name of the call, and an error of the transport.
EnrichErrors ==
    LET rpcErrors == { JsonRpcError(c, "inner failure", dt) :
                            c \in EnrichCodes, dt \in EnrichData }
    IN  rpcErrors
            \cup { WrappedError("calling", e) : e \in rpcErrors }
            \cup { PlainError("connection closed") }

\* The variant the dispatcher resolved: one of the test registry, or an ID
\* that is not valid UTF-8.
EnrichVariants == {Coding, Compact, <<255>>}

enrichErrorAt_alwaysCopy(heap, p, variantID) ==
    [heap |-> Append(heap,
                IF AsJsonRpcError(heap[p]) = NoError THEN heap[p]
                ELSE enrichData(AsJsonRpcError(heap[p]), variantID)),
     ret |-> Len(heap) + 1,
     panicked |-> FALSE]

\* enrichError(err, variantID) for the error object at address p: the heap
\* afterwards, the address of the error returned (p itself on the paths that
\* return err), and whether the call panicked instead of returning.
enrichErrorAt(heap, p, variantID) ==
    IF ~Enrichable(AsJsonRpcError(heap[p]))
    THEN [heap |-> heap, ret |-> p, panicked |-> FALSE]
    ELSE IF enrichError(heap[p], variantID).kind = "panic"
    THEN [heap |-> heap, ret |-> 0, panicked |-> TRUE]
    ELSE [heap |-> Append(heap, enrichError(heap[p], variantID)),
          ret |-> Len(heap) + 1,
          panicked |-> FALSE]

EnrichInit ==
    /\ RegistryIdle
    /\ CapsIdle
    /\ CodecIdle
    /\ NotAssembled
    /\ front = [s \in Sessions |-> "open"]
    /\ sessions = [s \in Sessions |-> NoState]
    /\ states = <<>>
    /\ initResult = [s \in Sessions |-> NoInitResult]
    /\ pending = [s \in Sessions |-> NoPending]
    /\ \E e \in EnrichErrors, v \in EnrichVariants :
            last = [kind |-> "error", heap |-> <<e>>, variantID |-> v]

\* A handler of the dispatcher passes the error of the inner call to
\* enrichError.
EnrichErrorCall ==
    /\ last.kind = "error"
    /\ last' = [kind |-> "enriched", before |-> last.heap,
                variantID |-> last.variantID,
                call |-> enrichErrorAt(last.heap, 1, last.variantID)]
    /\ UNCHANGED <<front, sessions, states, initResult, pending>>
    /\ UNCHANGED serverVars

EnrichNext == EnrichErrorCall

EnrichSpec == EnrichInit /\ [][EnrichNext]_vars

\* The *jsonrpc.Error that enrichError found in the error it was given.
Received == AsJsonRpcError(last.before[1])

\* The error the call returned.
Returned == last.call.heap[last.call.ret]

\* C23: enrichError leaves the error it receives as it was; for a JSON-RPC
\* error of code -32602 or -32601 it returns a new error with the same code
\* and message whose data is an object that holds every member of the
\* original data with its value, and activeVariant with the resolved variant
\* ID.
C23_EnrichmentWithoutMutation ==
    last.kind = "enriched" =>
        /\ last.call.heap[1] = last.before[1]
        /\ Enrichable(Received) =>
            /\ ~last.call.panicked
            /\ last.call.ret # 1
            /\ Returned.kind = "jsonrpc"
            /\ Returned.code = Received.code
            /\ Returned.message = Received.message
            /\ Returned.data.kind = "object"
            /\ Returned.data.obj["activeVariant"] = last.variantID
            /\ Received.data.kind = "object" =>
                    \A k \in (DOMAIN Received.data.obj) \ {"activeVariant"} :
                        /\ k \in DOMAIN Returned.data.obj
                        /\ Returned.data.obj[k] = Received.data.obj[k]

\* C29: enrichError returns a new error only for a JSON-RPC error (the error
\* itself or the one it wraps) of code -32602 or -32601; for a JSON-RPC error
\* of any other code and for an error that is no JSON-RPC error it returns
\* the object it received, and no error object is changed.
C29_SelectiveEnrichment ==
    last.kind = "enriched" =>
        /\ (Received = NoError
                \/ Received.code \notin {CodeInvalidParams, CodeMethodNotFound}) =>
                /\ ~last.call.panicked
                /\ last.call.ret = 1
                /\ last.call.heap = last.before
        /\ (last.call.ret # 1 \/ last.call.heap # last.before) =>
                /\ Received # NoError
                /\ Received.code \in {CodeInvalidParams, CodeMethodNotFound}
        /\ last.call.heap[1] = last.before[1]

\* An internal error with object data, wrapped by the client session, came
\* back as the object that was passed in.
C29_Witness ==
    /\ last.kind = "enriched"
    /\ last.before[1].kind = "wrapped"
    /\ Received # NoError
    /\ Received.code = CodeInternalError
    /\ Received.data.kind = "object"
    /\ last.call.ret = 1
    /\ Returned = last.before[1]

(***************************************************************************)
(* Listing the registry: the slices Variants and RankedVariants hand out   *)
(***************************************************************************)
MaxHeld == 3

\* The slices a caller holds are arrays on a heap, addressed from 1; address 0
\* stands for the array of the registry itself (s.variants).
VariantsAt_noCopy(heap, entries) == [heap |-> heap, ret |-> 0]

\* Server.Variants(): make() a new array, fill it from the registry, return it.
VariantsAt(heap, entries) ==
    [heap |-> Append(heap, Variants(entries)), ret |-> Len(heap) + 1]

\* A write of the array arr through the slice at address a.
StoreAt(heap, entries, a, arr) ==
    [heap |-> IF a = 0 THEN heap ELSE [heap EXCEPT ![a] = arr],
     variants |-> IF a = 0
                  THEN [i \in 1..Len(entries) |->
                            [entries[i] EXCEPT !.variant = arr[i]]]
                  ELSE entries]

\* The array read through the slice at address a.
LoadAt(heap, entries, a) == IF a = 0 THEN Variants(entries) ELSE heap[a]

\* Server.RankedVariants(ctx, hints): the ranking function sorts the slice
\* that Variants() returned, in place, and returns it.
RankedVariantsAt(heap, entries, fn, hints) ==
    [ret |-> VariantsAt(heap, entries).ret,
     mem |-> StoreAt(VariantsAt(heap, entries).heap, entries,
                     VariantsAt(heap, entries).ret,
                     RankedVariants(entries, fn, hints))]

\* A descriptor a caller writes into a slice it was given.
ForgedVariant == ServerVariant(Nonexistent, NoHints, Deprecated)

ListingInit ==
    /\ variants = <<>>
    /\ rankingFunc = "nil"
    /\ regCall = NoCall
    /\ CapsIdle
    /\ CodecIdle
    /\ NotAssembled
    /\ front = [s \in Sessions |-> "open"]
    /\ sessions = [s \in Sessions |-> NoState]
    /\ states = <<>>
    /\ initResult = [s \in Sessions |-> NoInitResult]
    /\ pending = [s \in Sessions |-> NoPending]
    /\ last = [kind |-> "caller", heap |-> <<>>]

\* vs.Variants()
VariantsCall ==
    /\ Len(last.heap) < MaxHeld
    /\ last' = [last EXCEPT !.heap = VariantsAt(last.heap, variants).heap]
    /\ regCall' = [op |-> "Variants", ret |-> VariantsAt(last.heap, variants).ret,
                   before |-> variants]
    /\ UNCHANGED <<variants, rankingFunc>>

\* vs.RankedVariants(ctx, hints)
RankedVariantsHeld(hints) ==
    /\ Len(last.heap) < MaxHeld
    /\ last' = [last EXCEPT
                    !.heap = RankedVariantsAt(last.heap, variants, rankingFunc, hints).mem.heap]
    /\ variants' = RankedVariantsAt(last.heap, variants, rankingFunc, hints).mem.variants
    /\ regCall' = [op |-> "RankedVariants",
                   ret |-> RankedVariantsAt(last.heap, variants, rankingFunc, hints).ret,
                   before |-> variants]
    /\ UNCHANGED rankingFunc

\* The addresses of the slices the caller was given.
HeldAddresses ==
    (1..Len(last.heap)) \cup (IF regCall.op \in {"Variants", "RankedVariants"}
                              THEN {regCall.ret} ELSE {})

\* The caller swaps the first two elements of a slice it holds.
CallerReorder(a) ==
    /\ Len(LoadAt(last.heap, variants, a)) >= 2
    /\ last' = [last EXCEPT !.heap =
            StoreAt(last.heap, variants, a,
                    [LoadAt(last.heap, variants, a) EXCEPT
                        ![1] = LoadAt(last.heap, variants, a)[2],
                        ![2] = LoadAt(last.heap, variants, a)[1]]).heap]
    /\ variants' =
            StoreAt(last.heap, variants, a,
                    [LoadAt(last.heap, variants, a) EXCEPT
                        ![1] = LoadAt(last.heap, variants, a)[2],
                        ![2] = LoadAt(last.heap, variants, a)[1]]).variants
    /\ regCall' = [op |-> "reorder", ret |-> a, before |-> variants]
    /\ UNCHANGED rankingFunc

\* The caller overwrites the first element of a slice it holds.
CallerOverwrite(a) ==
    /\ Len(LoadAt(last.heap, variants, a)) >= 1
    /\ LoadAt(last.heap, variants, a)[1] # ForgedVariant
    /\ last' = [last EXCEPT !.heap =
            StoreAt(last.heap, variants, a,
                    [LoadAt(last.heap, variants, a) EXCEPT ![1] = ForgedVariant]).heap]
    /\ variants' =
            StoreAt(last.heap, variants, a,
                    [LoadAt(last.heap, variants, a) EXCEPT ![1] = ForgedVariant]).variants
    /\ regCall' = [op |-> "overwrite", ret |-> a, before |-> variants]
    /\ UNCHANGED rankingFunc

ListingNext ==
    /\ \/ /\ \E id \in {Coding, Compact}, p \in RegistryPriorities :
                WithVariant(id, Stable, p)
          /\ UNCHANGED last
       \/ /\ \E fn \in RankingFuncs : WithRanking(fn)
          /\ UNCHANGED last
       \/ VariantsCall
       \/ \E hints \in RankHints : RankedVariantsHeld(hints)
       \/ \E a \in HeldAddresses : CallerReorder(a)
       \/ \E a \in HeldAddresses : CallerOverwrite(a)
    /\ UNCHANGED <<capsIn, capsOut, codec>>
    /\ UNCHANGED <<front, sessions, states, initResult, pending>>
    /\ UNCHANGED assemblyVars

ListingSpec == ListingInit /\ [][ListingNext]_vars

\* C24: Variants() returns the registered descriptors in registration order
\* in an array of its own, and only a registration changes the registry (by
\* appending to it): a caller that reorders or overwrites the elements of a
\* slice it was given, and RankedVariants with the default or a custom
\* ranking function sorting in place, leave what Variants() returns later as
\* it was.
C24_RegistryListing ==
    [][ /\ regCall'.op = "Variants" =>
            /\ regCall'.ret \notin 0..Len(last.heap)
            /\ last'.heap[regCall'.ret] = Variants(variants)
            /\ \A a \in 1..Len(last.heap) : last'.heap[a] = last.heap[a]
        /\ regCall'.op = "WithVariant" =>
            \/ variants' = variants
            \/ /\ Len(variants') = Len(variants) + 1
               /\ SubSeq(variants', 1, Len(variants)) = variants
        /\ regCall'.op # "WithVariant" => variants' = variants ]_vars

\* The caller overwrote and reordered the first slice it was given,
\* RankedVariants returned the second in another order than that of
\* registration, and Variants() then returned the registration order.
C24_Witness ==
    /\ regCall.op = "Variants"
    /\ regCall.ret = 3
    /\ Len(variants) = 2
    /\ last.heap[3] = Variants(variants)
    /\ last.heap[2] = RankedVariants(variants, rankingFunc, EmptyVariantHints)
    /\ last.heap[2] # last.heap[3]
    /\ Len(last.heap[1]) = 2
    /\ last.heap[1][2] = ForgedVariant
    /\ IDsOf(last.heap[3]) = <<Compact, Coding>>

(***************************************************************************)
(* The life of a front session: requests before initialize, after a failed *)
(* initialize, and after the session has ended                             *)
(***************************************************************************)
\* A request that was read from the connection before the front session
\* ended and whose handler runs after.
LateRequest(a, s, req, fault) ==
    /\ last = Idle
    /\ front[s] = "closed"
    /\ a \in 1..Len(assembled)
    /\ Handled(a, s, LoadState(a, s), req, fault, NoSource, <<>>,
               sessionMiddleware(a, s, req, fault))
    /\ UNCHANGED <<front, sessions, states, initResult>>
    /\ UNCHANGED serverVars
    /\ UNCHANGED pending

LifecycleInit == Assembled(TestRegistry, {"nil"})

LifecycleNext ==
    \/ \E a \in 1..Len(assembled), s \in Sessions, nextOK \in BOOLEAN,
          plan \in ConnectPlans :
            Initialize(a, s, NoExtension, nextOK, plan)
    \/ \E a \in 1..Len(assembled), s \in Sessions, req \in ModesRequests,
          fault \in {"none", "internal"} : Request(a, s, req, fault)
    \/ \E a \in 1..Len(assembled), s \in Sessions, req \in ModesRequests,
          fault \in {"none", "internal"} : LateRequest(a, s, req, fault)
    \/ Respond
    \/ \E s \in Sessions : CloseFront(s)
    \/ \E i \in 1..MaxInits : WatcherDelete(i)
    \/ \E i \in 1..MaxInits : WatcherClose(i)

\* The server assembled by Run, with requests that outlive their session.
LifecycleSpec == LifecycleInit /\ [][LifecycleNext]_vars

\* C25: in stateful mode a request other than initialize on a front session
\* with no entry in the session map goes to the next handler, and no call is
\* made on any inner session.
C25_NoStatePassThrough ==
    [][ ( /\ last'.kind = "request"
          /\ last' # last
          /\ assembled[last'.a] = NoState
          /\ sessions[last'.s] = NoState ) =>
            /\ last'.out = PassToNext
            /\ last'.out.passed
            /\ last'.out.rpc = NoRPC ]_vars

\* A tools/call arrived on a session that had been initialized and has been
\* torn down since, while the state of another session was live; it went to
\* next.
C25_Witness ==
    /\ last.kind = "request"
    /\ last.req.method = "tools/call"
    /\ front[last.s] = "closed"
    /\ sessions[last.s] = NoState
    /\ \E i \in 1..Len(states) : states[i].owner = last.s /\ states[i].pc = "done"
    /\ \E x \in Sessions : sessions[x] # NoState
    /\ last.out.passed
    /\ last.out.rpc = NoRPC

(***************************************************************************)
(* Capability discovery on its own: completions, logging and experimental  *)
(***************************************************************************)
\* *mcp.CompletionCapabilities / *mcp.LoggingCapabilities of a backend: nil,
\* or the value of that backend.
Markers == {NilMarker, [present |-> TRUE, val |-> "a"], [present |-> TRUE, val |-> "b"]}

\* The Experimental maps of the backends.
ExperimentalMaps ==
    {NoExperimental, [x |-> "1"], [x |-> "2"], [x |-> "2", y |-> "1"]}

MarkerCaps ==
    { [EmptyCaps EXCEPT !.Completions = c, !.Logging = l, !.Experimental = e] :
            c \in Markers, l \in {NilMarker, [present |-> TRUE, val |-> "a"]},
            e \in ExperimentalMaps }
        \cup {NilCaps}

MarkerInit ==
    /\ capsIn \in SeqsUpTo(MarkerCaps, MaxBackends)
    /\ capsOut = NotDiscovered
    /\ RegistryIdle
    /\ CodecIdle
    /\ ProxyIdle
    /\ NotAssembled

MarkerSpec == MarkerInit /\ [][CapsNext]_vars

\* The first backend, in registration order, of a set of backends.
FirstOf(S) == CHOOSE i \in S : \A j \in S : i <= j

WithCompletions == { i \in Advertising : capsIn[i].Completions.present }
WithLogging == { i \in Advertising : capsIn[i].Logging.present }
WithKey(k) == { i \in Advertising : k \in DOMAIN capsIn[i].Experimental }

\* C26: the union has completions (logging) iff some backend advertises it,
\* with the value of the first such backend in registration order; the keys
\* of its experimental map are those of all backends, each with the value of
\* the first backend in registration order that has the key.
C26_MarkerAndExperimentalUnion ==
    (capsOut.done /\ ~capsOut.err) =>
        /\ capsOut.caps.Completions.present <=> WithCompletions # {}
        /\ WithCompletions # {} =>
                capsOut.caps.Completions = capsIn[FirstOf(WithCompletions)].Completions
        /\ capsOut.caps.Logging.present <=> WithLogging # {}
        /\ WithLogging # {} =>
                capsOut.caps.Logging = capsIn[FirstOf(WithLogging)].Logging
        /\ DOMAIN capsOut.caps.Experimental =
                UNION { DOMAIN capsIn[i].Experimental : i \in Advertising }
        /\ \A k \in DOMAIN capsOut.caps.Experimental :
                capsOut.caps.Experimental[k] = capsIn[FirstOf(WithKey(k))].Experimental[k]

\* Two backends advertise completions with different values and share the
\* experimental key x with different values; the second alone has logging
\* and the key y.
C26_Witness ==
    /\ capsOut.done
    /\ ~capsOut.err
    /\ Len(capsIn) = 2
    /\ Advertising = {1, 2}
    /\ capsIn[1].Completions.present
    /\ capsIn[2].Completions.present
    /\ capsIn[1].Completions # capsIn[2].Completions
    /\ ~capsIn[1].Logging.present
    /\ capsIn[2].Logging.present
    /\ capsIn[1].Experimental = [x |-> "1"]
    /\ capsIn[2].Experimental = [x |-> "2", y |-> "1"]
    /\ capsOut.caps.Completions = capsIn[1].Completions
    /\ capsOut.caps.Logging = capsIn[2].Logging
    /\ capsOut.caps.Experimental = [x |-> "1", y |-> "1"]

(***************************************************************************)
(* Routing of the ten routed methods                                       *)
(***************************************************************************)
\* The step is a handler run of the dispatcher that resolved a variant.
RoutedStep ==
    /\ last'.kind = "request"
    /\ last' # last
    /\ last'.req.method \in RoutedMethods
    /\ ~last'.out.passed
    /\ last'.out.variantID # <<>>

\* The RPC kind that matches a routed method.
MatchingKind(method) ==
    IF method = "tools/list" THEN "ListTools"
    ELSE IF method = "resources/list" THEN "ListResources"
    ELSE IF method = "prompts/list" THEN "ListPrompts"
    ELSE IF method = "resources/templates/list" THEN "ListResourceTemplates"
    ELSE IF method = "tools/call" THEN "CallTool"
    ELSE IF method = "resources/read" THEN "ReadResource"
    ELSE IF method = "prompts/get" THEN "GetPrompt"
    ELSE IF method = "resources/subscribe" THEN "Subscribe"
    ELSE IF method = "resources/unsubscribe" THEN "Unsubscribe"
    ELSE "Complete"

\* The state of the requesting session, else the shared state.
RequestersState == IF sessions[last'.s] # NoState THEN sessions[last'.s]
                   ELSE assembled[last'.a]

\* The one RPC of the step: of the matching kind, on the inner session that
\* the connection table of the requester's state holds for the variant.
OneMatchingRPC ==
    /\ last'.out.rpc # NoRPC
    /\ last'.out.rpc.call = MatchingKind(last'.req.method)
    /\ last'.via = RequestersState
    /\ last'.out.rpc.server =
            states[RequestersState].connections[last'.out.variantID].backend
    /\ last'.out.rpc.server = BackendOf(last'.out.variantID)

\* The dispatcher refuses the request itself after it resolved the variant:
\* a call, subscription or completion request without params, or a list
\* request whose cursor does not unwrap under the variant.
RefusedByDispatcher ==
    \/ last'.req.method \notin ListMethods /\ last'.req.params = "nil"
    \/ /\ last'.req.method \in ListMethods
       /\ last'.req.params = "present"
       /\ last'.req.cursor # <<>>
       /\ unwrapCursor(last'.req.cursor, last'.out.variantID).err # NoError

\* C28 (as stated): a routed request resolved to variant V causes exactly one
\* RPC of the matching kind on V's inner session of the requester's state,
\* and none on the inner session of another variant.
C28_Routing == [][RoutedStep => OneMatchingRPC]_vars

\* C28 (amended): a routed request resolved to variant V causes at most one
\* RPC, never on the inner session of another variant; it causes none when
\* the dispatcher refuses the request itself (missing params, or a cursor
\* that does not unwrap under V), and otherwise exactly one, of the matching
\* kind, on V's inner session of the requester's state.
C28_RoutingUnlessRefused ==
    [][RoutedStep =>
            IF RefusedByDispatcher
            THEN last'.out.rpc = NoRPC /\ last'.out.err # NoError
            ELSE OneMatchingRPC]_vars

\* A resources/unsubscribe under the selector of the variant that is not the
\* default was forwarded as Unsubscribe to that variant's inner server.
C28_Witness ==
    /\ Dispatched
    /\ last.req.method = "resources/unsubscribe"
    /\ last.req.meta = StringSelector(Compact)
    /\ last.out.variantID = Compact
    /\ RankOrderIDs[1] = Coding
    /\ last.out.rpc # NoRPC
    /\ last.out.rpc.call = "Unsubscribe"
    /\ last.out.rpc.server = "compact-server"

(***************************************************************************)
(* Pagination of the four list methods                                     *)
(***************************************************************************)
\* A registry whose default variant, under the given ID, fronts an inner
\* server with tools, resources, prompts and resource templates.
CatalogRegistry(id) ==
    addVariant(addVariant(<<>>, ServerVariant(id, NoHints, Stable),
                          "catalog-server", 0).variants,
               ServerVariant(Compact, NoHints, Experimental),
               "compact-server", 1).variants

PagingInit ==
    \E id \in {Coding, <<255>>} : Assembled(CatalogRegistry(id), {"nil"})

\* First pages of the four list methods, under no selector and under each
\* selector a client can send.
PagingRequests ==
    { NewRequest(m, "present", sel, <<>>, "") :
            m \in ListMethods, sel \in {NoSelector, StringSelector(Compact)} }
    \cup { NewRequest(m, "nil", NoSelector, <<>>, "") : m \in ListMethods }

PagingNext ==
    \/ \E s \in Sessions : Initialize(1, s, NoExtension, TRUE, AllConnect)
    \/ \E s \in Sessions, req \in PagingRequests, fault \in {"none", "internal"} :
            Request(1, s, req, fault)
    \/ \E s \in Sessions, meta \in {NoSelector, StringSelector(Compact)},
          fault \in {"none", "internal"} : Paginate(s, meta, fault)
    \/ Respond

PagingSpec == PagingInit /\ [][PagingNext]_vars

\* The result the inner session returned for the call a handler made.
InnerResultOf(l) == InnerAnswer(l.out.rpc.server, l.out.rpc).result

\* The front response to a list request carries the items of the inner
\* response, and the inner nextCursor wrapped under the active variant (none
\* when the inner response has none).
NextCursorWrapped ==
    (Dispatched /\ last.req.method \in ListMethods /\ last.out.err = NoError) =>
        /\ last.out.rpc # NoRPC
        /\ last.out.result.kind = "list"
        /\ last.out.result.items = InnerResultOf(last).items
        /\ last.out.result.nextCursor = <<>> <=> InnerResultOf(last).nextCursor = <<>>
        /\ InnerResultOf(last).nextCursor # <<>> =>
                last.out.result.nextCursor =
                    wrapCursor(InnerResultOf(last).nextCursor, last.out.variantID)

\* The step resubmits the nextCursor of the list response in last, and the
\* request resolves to the variant that response was given under.
ResubmittedUnderSameVariant ==
    /\ last.kind = "request"
    /\ last'.kind = "request"
    /\ last' # last
    /\ last'.from.kind = "issued"
    /\ last'.req.cursor = last.out.result.nextCursor
    /\ last'.out.variantID = last.out.variantID

\* The inner session is called with the cursor it issued.
InnerCursorRestored ==
    /\ last'.out.rpc # NoRPC
    /\ last'.out.rpc.call = last.out.rpc.call
    /\ last'.out.rpc.server = last.out.rpc.server
    /\ last'.out.rpc.cursor = InnerResultOf(last).nextCursor

CursorTexts ==
    {\* a cursor object: {"v":"a","c":"x"}
     <<123, 34, 118, 34, 58, 34, 97, 34, 44, 34, 99, 34, 58, 34, 120, 34, 125>>,
     \* the same with white space and the members swapped: { "c" : "x" , "v" : "a" } 
     <<123, 32, 34, 99, 34, 32, 58, 32, 34, 120, 34, 32, 44, 32, 34, 118, 34, 32, 58, 32, 34, 97, 34, 32, 125, 32>>,
     \* keys matched without regard to case: {"V":"a","C":"x"}
     <<123, 34, 86, 34, 58, 34, 97, 34, 44, 34, 67, 34, 58, 34, 120, 34, 125>>,
     \* an unknown member: {"v":"a","c":"x","z":true}
     <<123, 34, 118, 34, 58, 34, 97, 34, 44, 34, 99, 34, 58, 34, 120, 34, 44, 34, 122, 34, 58, 116, 114, 117, 101, 125>>,
     \* a null member: {"v":null,"c":"x"}
     <<123, 34, 118, 34, 58, 110, 117, 108, 108, 44, 34, 99, 34, 58, 34, 120, 34, 125>>,
     \* an empty object: {}
     <<123, 125>>,
     \* null: null
     <<110, 117, 108, 108>>,
     \* a truncated object: {"v":"a","c":"x"
     <<123, 34, 118, 34, 58, 34, 97, 34, 44, 34, 99, 34, 58, 34, 120, 34>>,
     \* an object followed by another byte: {"v":"a","c":"x"}x
     <<123, 34, 118, 34, 58, 34, 97, 34, 44, 34, 99, 34, 58, 34, 120, 34, 125, 120>>,
     \* a member of the wrong type: {"v":true,"c":"x"}
     <<123, 34, 118, 34, 58, 116, 114, 117, 101, 44, 34, 99, 34, 58, 34, 120, 34, 125>>,
     \* a JSON string: "a"
     <<34, 97, 34>>,
     \* a JSON array: []
     <<91, 93>>,
     \* no JSON at all: x
     <<120>>}

\* The cursors clients send that no wrapCursor call produced: the empty
\* string, "!" and "a" (no base64), "YQ=" (bad padding), "YQ==\n" (base64 with
\* a line feed), and the base64 of each of the texts.
ReceivedCursors ==
    { <<>>, <<33>>, <<97>>, <<89, 81, 61>>, <<89, 81, 61, 61, 10>> }
        \cup { B64Encode(t) : t \in CursorTexts }

EdgeInit ==
    \/ CodecInit
    \/ /\ RegistryIdle
       /\ CapsIdle
       /\ ProxyIdle
       /\ NotAssembled
       /\ \E r \in ReceivedCursors, v \in {<<>>, <<97>>}, v2 \in {<<>>, <<97>>, <<98>>} :
            codec = [pc |-> "received", c |-> <<>>, v |-> v, v2 |-> v2,
                     wrapped |-> r,
                     same |-> [cursor |-> <<>>, err |-> NoError],
                     other |-> [cursor |-> <<>>, err |-> NoError]]

\* same := unwrapCursor(received, v); other := unwrapCursor(received, v2)
CodecUnwrapReceived ==
    /\ codec.pc = "received"
    /\ UNCHANGED <<variants, rankingFunc, regCall, capsIn, capsOut>>
    /\ UNCHANGED proxyVars
    /\ UNCHANGED assemblyVars
    /\ codec' = [codec EXCEPT !.pc = "unwrapped",
                              !.same = unwrapCursor(codec.wrapped, codec.v),
                              !.other = unwrapCursor(codec.wrapped, codec.v2)]

EdgeNext == CodecWrap \/ CodecUnwrap \/ CodecUnwrapReceived

EdgeSpec == EdgeInit /\ [][EdgeNext]_vars

\* The string is the base64 of a JSON text that decodes into the cursor
\* object.
DecodableCursor(s) ==
    /\ B64Decode(s).ok
    /\ UnmarshalCursor(B64Decode(s).val).ok

\* The unwrap failed with -32602 "Invalid cursor format" and returned no
\* inner cursor.
InvalidFormat(u) ==
    /\ u.cursor = <<>>
    /\ u.err # NoError
    /\ u.err.kind = "jsonrpc"
    /\ u.err.code = CodeInvalidParams
    /\ u.err.message = "Invalid cursor format"

\* C31: wrapCursor returns the empty string iff the inner cursor is empty;
\* unwrapCursor of the empty string returns the empty string and no error
\* under every expected variant; unwrapCursor of a non-empty string that is
\* not the base64 of a JSON text decodable as the cursor object fails with
\* -32602 "Invalid cursor format" and returns no inner cursor.
C31_CursorEdgeCases ==
    /\ (codec.pc = "wrapped") => (codec.wrapped = <<>> <=> codec.c = <<>>)
    /\ (codec.pc = "unwrapped" /\ codec.wrapped = <<>>) =>
            /\ codec.same = [cursor |-> <<>>, err |-> NoError]
            /\ codec.other = [cursor |-> <<>>, err |-> NoError]
    /\ (codec.pc = "unwrapped" /\ codec.wrapped # <<>>
            /\ ~DecodableCursor(codec.wrapped)) =>
            /\ InvalidFormat(codec.same)
            /\ InvalidFormat(codec.other)

\* The base64 of an object whose v member is true was refused as a cursor
\* of invalid format under both expected variants.
C31_Witness ==
    /\ codec.pc = "unwrapped"
    /\ B64Decode(codec.wrapped).ok
    /\ B64Decode(codec.wrapped).val =
            <<123, 34, 118, 34, 58, 116, 114, 117, 101, 44, 34, 99, 34, 58, 34, 120, 34, 125>>
    /\ codec.v # codec.v2
    /\ InvalidFormat(codec.same)
    /\ InvalidFormat(codec.other)

(***************************************************************************)
(* The capability probe and the sessions it opens                          *)
(***************************************************************************)
\* How a probe of a backend goes: both connects succeed and the probe client
\* reads the capabilities caps, or the connect of the inner server or of the
\* probe client fails.
ProbePlans ==
    { [outcome |-> "ok", caps |-> c] :
            c \in {ToolsOnlyCaps, EmptyCaps, NilCaps,
                   [EmptyCaps EXCEPT !.Resources =
                        [present |-> TRUE, Subscribe |-> TRUE, ListChanged |-> FALSE]]} }
        \cup { [outcome |-> o, caps |-> NilCaps] : o \in {"serverFail", "clientFail"} }

capabilities_leakOnClientFail(plan) ==
    CASE plan.outcome = "serverFail" ->
            [result |-> ProbeError, ss |-> "none", cs |-> "none"]
      [] plan.outcome = "clientFail" ->
            [result |-> ProbeError, ss |-> "open", cs |-> "none"]
      [] OTHER ->
            [result |-> plan.caps, ss |-> "closed", cs |-> "closed"]

\* inMemoryBackend.capabilities: what it returns (the capabilities, nil
\* capabilities, or an error) and the states it leaves the inner-server session
\* ss and the probe client session cs in ("none": never opened).
capabilities(plan) ==
    CASE plan.outcome = "serverFail" ->
            [result |-> ProbeError, ss |-> "none", cs |-> "none"]
      [] plan.outcome = "clientFail" ->
            [result |-> ProbeError, ss |-> "closed", cs |-> "none"]
      [] OTHER ->
            [result |-> plan.caps, ss |-> "closed", cs |-> "closed"]

ProbeInit ==
    /\ capsIn \in SeqsUpTo(ProbePlans, MaxBackends)
    /\ capsOut = [done |-> FALSE, err |-> FALSE, caps |-> EmptyCaps, probes |-> <<>>]
    /\ RegistryIdle
    /\ CodecIdle
    /\ ProxyIdle
    /\ NotAssembled

\* One iteration of the loop of discoverCapabilities: the probe of the next
\* backend; its error ends the discovery.
ProbeBackend ==
    /\ ~capsOut.done
    /\ Len(capsOut.probes) < Len(capsIn)
    /\ capsOut' = [capsOut EXCEPT
            !.probes = Append(@, capabilities(capsIn[Len(capsOut.probes) + 1])),
            !.err = IsProbeError(capabilities(capsIn[Len(capsOut.probes) + 1]).result),
            !.done = IsProbeError(capabilities(capsIn[Len(capsOut.probes) + 1]).result)]
    /\ UNCHANGED <<capsIn, variants, rankingFunc, regCall, codec>>
    /\ UNCHANGED proxyVars
    /\ UNCHANGED assemblyVars

\* discoverCapabilities, after the loop: the union of what the probes returned.
ProbesDone ==
    /\ ~capsOut.done
    /\ Len(capsOut.probes) = Len(capsIn)
    /\ capsOut' = [capsOut EXCEPT
            !.done = TRUE,
            !.caps = discoverCapabilities(
                        [i \in 1..Len(capsOut.probes) |-> capsOut.probes[i].result]).caps]
    /\ UNCHANGED <<capsIn, variants, rankingFunc, regCall, codec>>
    /\ UNCHANGED proxyVars
    /\ UNCHANGED assemblyVars

ProbeNext == ProbeBackend \/ ProbesDone

ProbeSpec == ProbeInit /\ [][ProbeNext]_vars

\* C32: a call of capabilities() that succeeds has opened one inner-server
\* session and one probe client session and has closed both when it returns;
\* one whose probe client fails to connect has closed the inner-server
\* session; each backend is probed at most once, in registration order, and
\* at no time, during or after assembly, is a session of a returned probe
\* open.
C32_ProbeLeavesNothingOpen ==
    /\ Len(capsOut.probes) <= Len(capsIn)
    /\ \A i \in 1..Len(capsOut.probes) :
        /\ capsOut.probes[i].ss # "open"
        /\ capsOut.probes[i].cs # "open"
        /\ capsIn[i].outcome = "ok" =>
                /\ capsOut.probes[i].ss = "closed"
                /\ capsOut.probes[i].cs = "closed"
                /\ capsOut.probes[i].result = capsIn[i].caps
        /\ capsIn[i].outcome = "clientFail" =>
                /\ capsOut.probes[i].ss = "closed"
                /\ capsOut.probes[i].cs = "none"
                /\ IsProbeError(capsOut.probes[i].result)
        /\ capsIn[i].outcome = "serverFail" =>
                /\ capsOut.probes[i].ss = "none"
                /\ capsOut.probes[i].cs = "none"
    /\ (capsOut.done /\ ~capsOut.err) => Len(capsOut.probes) = Len(capsIn)

\* The first backend was probed and both sessions closed; the probe client
\* of the second failed to connect, its inner-server session was closed, and
\* the discovery ended with the error.
C32_Witness ==
    /\ capsOut.done
    /\ capsOut.err
    /\ Len(capsOut.probes) = 2
    /\ capsIn[1].outcome = "ok"
    /\ capsIn[2].outcome = "clientFail"
    /\ capsOut.probes[1].ss = "closed"
    /\ capsOut.probes[1].cs = "closed"
    /\ capsOut.probes[2].ss = "closed"
    /\ capsOut.probes[2].cs = "none"

(***************************************************************************)
(* The default ranking of variants registered without a status             *)
(***************************************************************************)
\* The positions of two ranked variants of equal priority, the first of
\* which was registered with the empty status.
UnsetAndPeer(i, j) ==
    /\ i # j
    /\ regCall.result[i].Status = ""
    /\ regCall.result[i].priority = regCall.result[j].priority

\* C33: the default ranking orders a variant whose status is the empty
\* string, among the variants of its priority, before every experimental,
\* deprecated and unknown-status variant, and relative to the stable (and
\* other empty-status) ones in registration order.
C33_EmptyStatusRanksAsStable ==
    regCall.op = "RankedVariants" =>
        \A i, j \in 1..Len(regCall.result) : UnsetAndPeer(i, j) =>
            IF regCall.result[j].Status \in {Stable, ""}
            THEN (i < j) <=> (PositionOf(Variants(variants), regCall.result[i].ID)
                                < PositionOf(Variants(variants), regCall.result[j].ID))
            ELSE i < j

\* Registered in the order experimental, stable, no status, all of one
\* priority; ranked stable, no status, experimental.
C33_Witness ==
    /\ regCall.op = "RankedVariants"
    /\ Len(regCall.result) = 3
    /\ \A i \in 1..3 : regCall.result[i].priority = 0
    /\ Variants(variants)[1].Status = Experimental
    /\ Variants(variants)[2].Status = Stable
    /\ Variants(variants)[3].Status = ""
    /\ regCall.result[1].Status = Stable
    /\ regCall.result[2].Status = ""
    /\ regCall.result[3].Status = Experimental

(***************************************************************************)
(* Selectors that select nothing: the empty string, a value that is not a  *)
(* string, and requests whose params are nil or a typed nil                *)
(***************************************************************************)
\* Every routed method under every shape of selector and params; a selector
\* that names the second-ranked variant is there for contrast.
SelectorRequests ==
    { NewRequest(m, p, NoSelector, <<>>, "x") :
            m \in RoutedMethods, p \in {"nil", "typedNil"} }
    \cup { NewRequest(m, "present", sel, <<>>, "x") :
            m \in RoutedMethods,
            sel \in {NoSelector, StringSelector(<<>>), NonStringSelector,
                     StringSelector(Compact), StringSelector(Nonexistent)} }

SelectorNext ==
    \/ \E s \in Sessions, plan \in ConnectPlans :
            Initialize(1, s, NoExtension, TRUE, plan)
    \/ \E s \in Sessions, req \in SelectorRequests, fault \in InnerFaults :
            Request(1, s, req, fault)
    \/ Respond

SelectorSpec == Assembled(TestRegistry, RankingFuncs) /\ [][SelectorNext]_vars

\* The request in last carries no usable selector, although it is not the
\* plain request without one.
AbsentLike(req) ==
    \/ req.params \in {"nil", "typedNil"}
    \/ req.params = "present" /\ req.meta \in {StringSelector(<<>>), NonStringSelector}

\* The same request with the selector left out.
WithoutSelector(req) == [req EXCEPT !.meta = NoSelector]

\* C34: a routed request dispatched with an empty-string selector, a selector
\* that is not a string, or nil or typed-nil params has the outcome of the
\* same request without a selector: it resolves to the first-ranked variant
\* under empty hints and its error is never "Invalid server variant".
C34_AbsentSelectorEquivalence ==
    (last.kind = "request" /\ last.via # NoState
        /\ last.req.method \in RoutedMethods /\ AbsentLike(last.req))
    => /\ last.out = handle(states[last.via].connections,
                            WithoutSelector(last.req), last.fault)
       /\ last.out.variantID = RankOrderIDs[1]
       /\ ~IsInvalidVariant(last.out.err)

\* A numeric selector on a read answered by the default variant's server.
C34_Witness ==
    /\ last.kind = "request"
    /\ last.via # NoState
    /\ last.req.method = "resources/read"
    /\ last.req.meta = NonStringSelector
    /\ last.out.rpc # NoRPC
    /\ last.out.rpc.server = "coding-server"
    /\ last.out.err = NoError

(***************************************************************************)
(* Requests the dispatcher refuses                                         *)
(***************************************************************************)
\* Requests of every routed method with params that are missing, a typed
\* nil or of another type, selectors of unregistered variants and cursors
\* that do not decode.
RejectRequests ==
    { NewRequest(m, p, NoSelector, <<>>, "x") :
            m \in RoutedMethods, p \in {"nil", "typedNil", "wrongType"} }
    \cup { NewRequest(m, "wrongType", StringSelector(Nonexistent), <<>>, "x") :
            m \in RoutedMethods }
    \cup { NewRequest(m, "present", sel, c, "x") :
            m \in ListMethods, c \in {<<>>, MalformedCursor},
            sel \in {NoSelector, StringSelector(Compact), StringSelector(Nonexistent)} }
    \cup { NewRequest(m, "present", sel, <<>>, "x") :
            m \in RoutedMethods \ ListMethods,
            sel \in {NoSelector, StringSelector(Compact), StringSelector(Nonexistent)} }

RejectNext ==
    \/ \E s \in Sessions : Initialize(1, s, NoExtension, TRUE, AllConnect)
    \/ \E s \in Sessions, req \in RejectRequests, fault \in {"none", "internal"} :
            Request(1, s, req, fault)
    \/ \E s \in Sessions, meta \in {NoSelector, StringSelector(Compact)},
          fault \in {"none", "internal"} : Paginate(s, meta, fault)
    \/ Respond

RejectSpec == Assembled(CatalogRegistry(Coding), {"nil"}) /\ [][RejectNext]_vars

\* The selector of req names a variant the connection table does not hold.
SelectsMissing(req, connections) ==
    /\ req.params \in {"present", "wrongType"}
    /\ req.meta.kind = "string"
    /\ req.meta.value # <<>>
    /\ req.meta.value \notin DOMAIN connections

\* The variant a request with a usable selector, or none, resolves to.
ResolvedID(req) ==
    IF req.params \in {"present", "wrongType"} /\ req.meta.kind = "string"
        /\ req.meta.value # <<>>
    THEN req.meta.value
    ELSE RankOrderIDs[1]

\* The cursor of a list request does not unwrap under the resolved variant:
\* it is malformed or was issued for another variant.
CursorRefused(req) ==
    /\ req.method \in ListMethods
    /\ req.params = "present"
    /\ req.cursor # <<>>
    /\ unwrapCursor(req.cursor, ResolvedID(req)).err # NoError

\* A method that needs params was sent none, a typed nil or another type.
ParamsRefused(req) ==
    /\ req.method \in RoutedMethods \ ListMethods
    /\ req.params # "present"

FailsInDispatcher(req, connections) ==
    \/ SelectsMissing(req, connections)
    \/ CursorRefused(req)
    \/ ParamsRefused(req)

\* C35: a routed request that the dispatcher refuses (unregistered variant,
\* cursor that is malformed or of another variant, params missing or of the
\* wrong type) ends with an error and without a call on an inner session,
\* and the session states, their connection tables included, and the
\* session map are as before.
C35_RejectedNotForwarded ==
    [][(/\ last' # last
        /\ last'.kind = "request"
        /\ last'.via # NoState
        /\ last'.req.method \in RoutedMethods
        /\ FailsInDispatcher(last'.req, states[last'.via].connections))
       => /\ last'.out.rpc = NoRPC
          /\ last'.out.err # NoError
          /\ states' = states
          /\ sessions' = sessions]_vars

\* A cursor issued under the first variant was resubmitted under the second
\* and refused.
C35_Witness ==
    /\ last.kind = "request"
    /\ last.via # NoState
    /\ last.from # NoSource
    /\ last.from.variant = Coding
    /\ last.req.meta = StringSelector(Compact)
    /\ last.out.rpc = NoRPC
    /\ last.out.err # NoError

(***************************************************************************)
(* The order of the watcher's two steps                                    *)
(***************************************************************************)
\* An inner connection of the i-th session state has been closed.
HasClosedConnection(i) ==
    \E id \in DOMAIN states[i].connections :
        \/ states[i].connections[id].client = "closed"
        \/ states[i].connections[id].server = "closed"

\* No session is mapped to a state with a closed inner connection.
ClosedStateUnmapped ==
    \A i \in 1..Len(states) :
        HasClosedConnection(i) => sessions[states[i].owner] # i

\* C36: the watcher deletes the session's entry before it closes the state:
\* a session state with a closed inner connection is never the one its
\* session is mapped to, and a request of that session handled on the server
\* assembled by Run once a connection of its state is closed passes through
\* to next without a call on an inner session.
C36_TeardownOrdering ==
    [][ /\ ClosedStateUnmapped'
        /\ ( /\ last' # last
             /\ last'.kind = "request"
             /\ \E i \in 1..Len(states) :
                    states[i].owner = last'.s /\ HasClosedConnection(i) )
           => /\ last'.via = NoState
              /\ last'.out = PassToNext
              /\ last'.out.rpc = NoRPC ]_vars

\* A session initialized twice has ended, the watcher of its first state
\* has closed that state, and a list request of the session passed through
\* while the second state was still open.
C36_Witness ==
    /\ last.kind = "request"
    /\ last.req.method = "tools/list"
    /\ last.via = NoState
    /\ last.out.passed
    /\ Len(states) = 2
    /\ states[1].owner = last.s
    /\ states[2].owner = last.s
    /\ states[1].pc = "done"
    /\ HasClosedConnection(1)
    /\ states[2].pc = "wait"
    /\ ~HasClosedConnection(2)

(***************************************************************************)
(* The order of the steps of an initialize                                 *)
(***************************************************************************)
\* The step is the initialize handler of some session running to its return.
InitializeStep == last' # last /\ last'.kind = "initialize"

\* The handler stored nothing and started no watcher: the session map and the
\* session states, each of which has a watcher, are as before.
NothingStored == sessions' = sessions /\ states' = states

\* The session of the handler is mapped to a state made in this step, which
\* holds an open connection for every registered variant and whose watcher
\* waits for the session to end.
StateStored ==
    /\ Len(states') = Len(states) + 1
    /\ sessions'[last'.s] = Len(states')
    /\ states'[Len(states')].owner = last'.s
    /\ states'[Len(states')].pc = "wait"
    /\ DOMAIN states'[Len(states')].connections
            = { variants[i].variant.ID : i \in 1..Len(variants) }
    /\ \A id \in DOMAIN states'[Len(states')].connections :
            /\ states'[Len(states')].connections[id].client = "open"
            /\ states'[Len(states')].connections[id].server = "open"

\* C37: on the server assembled by Run, an initialize whose next fails
\* returns that error with no backend connect attempted, no state stored and
\* no watcher started; an initialize that returns the enriched result has,
\* by then, had next succeed and stored a state with a connection for every
\* registered variant under its session; any other initialize stores
\* nothing.
C37_InitializeOrdering ==
    [][ InitializeStep =>
          /\ ~last'.nextOK =>
                /\ last'.made = <<>>
                /\ last'.err = NextError
                /\ last'.result = NoInitResult
                /\ NothingStored
          /\ last'.result # NoInitResult =>
                /\ last'.nextOK
                /\ last'.err = NoError
                /\ last'.result = enrichInitResult(last'.params)
                /\ StateStored
          /\ last'.result = NoInitResult => NothingStored ]_vars

\* One session's initialize has stored its state; the other's failed in next
\* and left nothing behind.
C37_Witness ==
    /\ last.kind = "initialize"
    /\ ~last.nextOK
    /\ last.made = <<>>
    /\ sessions[last.s] = NoState
    /\ Len(states) = 1
    /\ states[1].owner # last.s
    /\ sessions[states[1].owner] = 1

(***************************************************************************)
(* Close over backends whose close may fail, and Close called again        *)
(***************************************************************************)
CloseOutcomes == [1..Len(variants) -> {"nil", "fail"}]

CloseNext ==
    \/ \E capsOK \in BOOLEAN, plan \in ConnectPlans :
            NewStreamableHTTPHandler(capsOK, plan)
    \/ \E outcomes \in CloseOutcomes : Close(outcomes)
    \/ \E a \in 1..Len(assembled), s \in Sessions :
            Initialize(a, s, NoExtension, TRUE, AllConnect)
    \/ \E a \in 1..Len(assembled), s \in Sessions, req \in ModesRequests :
            Request(a, s, req, "none")
    \/ Respond

CloseSpec == Unassembled(TestRegistry, {"nil"}) /\ [][CloseNext]_vars

\* The step is a call of Close.
CloseStep == regCall' # regCall /\ regCall'.op = "Close"

\* The backends whose close failed in the call recorded in call.
FailedBackends(call) == { i \in 1..Len(variants) : call.outcomes[i] = "fail" }

\* The error of the first backend, in registration order, whose close failed.
FirstCloseError(call) ==
    IF FailedBackends(call) = {} THEN NoError
    ELSE LET k == CHOOSE i \in FailedBackends(call) :
                        \A j \in FailedBackends(call) : i <= j
         IN  backend_close(variants[k], "fail")

\* C38: Close calls close on every registered backend, in registration
\* order, whichever of them fail, and returns the error of the first that
\* failed (nil if none did); it leaves s.shared nil; a Close that finds
\* s.shared nil changes no connection, and the state a Close tears down had
\* not been torn down before, so no inner connection is closed twice.
C38_CloseRobustness ==
    [][ CloseStep =>
          /\ regCall'.closed = [i \in 1..Len(variants) |-> variants[i].backend]
          /\ regCall'.err = FirstCloseError(regCall')
          /\ shared' = NoState
          /\ shared = NoState => states' = states
          /\ shared # NoState =>
                /\ states[shared].pc # "closed"
                /\ \A id \in DOMAIN states[shared].connections :
                        states[shared].connections[id].client = "open"
                /\ states'[shared].pc = "closed"
                /\ \A i \in 1..Len(states) : i # shared => states'[i] = states[i]
      ]_vars

\* A second Close, both of whose backends failed to close: both were closed,
\* the error is the first one's, and the shared state the first Close tore
\* down was left as it was.
C38_Witness ==
    /\ regCall.op = "Close"
    /\ regCall.outcomes = <<"fail", "fail">>
    /\ regCall.closed = <<"coding-server", "compact-server">>
    /\ regCall.err = PlainError("close coding-server")
    /\ regCall.shared = NoState
    /\ shared = NoState
    /\ \E i \in 1..Len(states) : states[i].pc = "closed"

====
